---------------------------- MODULE Spec2Model ----------------------------
(***************************************************************************)
(* Model of the simulation-generation pipeline of shubhash-singh/AgenticAI *)
(*                                                                         *)
(*   src/src/sim_generator.py             the sequential orchestrator      *)
(*                                        generate_simulation_with_checks  *)
(*                                        and its extraction helpers       *)
(*   src/src_lang_graph/sim_generator.py  the LangGraph pipeline           *)
(*                                        planner -> creator -> reviewer   *)
(*                                                                         *)
(* A Python str is a sequence of one-character strings.  A Python value    *)
(* (str, int, float, bool, None, list, dict) is a record                   *)
(*      [t |-> tag, s |-> characters, n |-> integer, kids |-> members]     *)
(* where every member of kids is a record [k |-> key characters, v |->     *)
(* value]; a list uses the empty key.  Every value has the same four       *)
(* fields, so any two values can be compared.                              *)
(***************************************************************************)
EXTENDS Integers, Sequences, FiniteSets, TLC

(***************************************************************************)
(* Python str operations, with Python's 0-based positions.                 *)
(***************************************************************************)

\* the character U+0060 (grave accent), which a TLA+ string cannot hold
Backtick == "U+0060"

\* the character U+00B0 (degree sign)
DegreeSign == "U+00B0"

\* str.isspace() of one character, for the characters of the model's texts
Whitespace == {" ", "\n", "\t", "\r", "\f"}

\* the upper-case letters and their lower-case forms (str.lower)
LowerMap ==
    ("A" :> "a") @@ ("B" :> "b") @@ ("C" :> "c") @@ ("D" :> "d") @@
    ("E" :> "e") @@ ("F" :> "f") @@ ("G" :> "g") @@ ("H" :> "h") @@
    ("I" :> "i") @@ ("J" :> "j") @@ ("K" :> "k") @@ ("L" :> "l") @@
    ("M" :> "m") @@ ("N" :> "n") @@ ("O" :> "o") @@ ("P" :> "p") @@
    ("Q" :> "q") @@ ("R" :> "r") @@ ("S" :> "s") @@ ("T" :> "t") @@
    ("U" :> "u") @@ ("V" :> "v") @@ ("W" :> "w") @@ ("X" :> "x") @@
    ("Y" :> "y") @@ ("Z" :> "z")

\* text.lower()
lower(text) ==
    [i \in 1..Len(text) |->
        IF text[i] \in DOMAIN LowerMap THEN LowerMap[text[i]] ELSE text[i]]

\* text[a:b] for 0 <= a, 0 <= b
Slice(text, a, b) ==
    LET hi == IF b > Len(text) THEN Len(text) ELSE b
    IN  IF a >= hi THEN <<>> ELSE SubSeq(text, a + 1, hi)

\* text[a:]
SliceFrom(text, a) == Slice(text, a, Len(text))

\* text.startswith(sub, pos): sub occurs in text at 0-based position pos
OccursAt(text, sub, pos) ==
    /\ pos >= 0
    /\ pos + Len(sub) <= Len(text)
    /\ \A k \in 1..Len(sub) : text[pos + k] = sub[k]

\* text.startswith(prefix)
startswith(text, prefix) == OccursAt(text, prefix, 0)

\* sub in text
Contains(text, sub) == \E p \in 0..(Len(text) - Len(sub)) : OccursAt(text, sub, p)

\* text.find(sub): the lowest position of sub, or -1
find(text, sub) ==
    IF Contains(text, sub)
    THEN CHOOSE p \in 0..(Len(text) - Len(sub)) :
            /\ OccursAt(text, sub, p)
            /\ \A q \in 0..(p - 1) : ~OccursAt(text, sub, q)
    ELSE -1

\* text.rfind(sub): the highest position of sub, or -1
rfind(text, sub) ==
    IF Contains(text, sub)
    THEN CHOOSE p \in 0..(Len(text) - Len(sub)) :
            /\ OccursAt(text, sub, p)
            /\ \A q \in (p + 1)..(Len(text) - Len(sub)) : ~OccursAt(text, sub, q)
    ELSE -1

\* the number of leading characters of text that are in chars
LeadingIn(text, chars) ==
    IF \A i \in 1..Len(text) : text[i] \in chars
    THEN Len(text)
    ELSE (CHOOSE i \in 1..Len(text) :
            /\ text[i] \notin chars
            /\ \A j \in 1..(i - 1) : text[j] \in chars) - 1

\* the number of trailing characters of text that are in chars
TrailingIn(text, chars) ==
    IF \A i \in 1..Len(text) : text[i] \in chars
    THEN Len(text)
    ELSE Len(text) - (CHOOSE i \in 1..Len(text) :
            /\ text[i] \notin chars
            /\ \A j \in (i + 1)..Len(text) : text[j] \in chars)

\* text.lstrip(chars)
lstripChars(text, chars) == SliceFrom(text, LeadingIn(text, chars))

\* text.strip(chars)
stripChars(text, chars) ==
    LET rstripChars(t1) == Slice(t1, 0, Len(t1) - TrailingIn(t1, chars))
    IN  rstripChars(lstripChars(text, chars))

\* text.lstrip()
lstrip(text) == lstripChars(text, Whitespace)

\* text.strip()
strip(text) == stripChars(text, Whitespace)

\* text.replace(old, new, 1): the first occurrence of old replaced by new
replace1(text, old, new) ==
    LET ReplaceAt(p) ==
            IF p = -1 THEN text
            ELSE Slice(text, 0, p) \o new \o SliceFrom(text, p + Len(old))
    IN  ReplaceAt(find(text, old))

\* text.replace(old, new) for a one-character old, one half of the text
\* after the other
RECURSIVE replaceChar(_, _, _)
replaceChar(text, old, new) ==
    IF Len(text) = 0 THEN <<>>
    ELSE IF Len(text) = 1 THEN (IF text[1] = old THEN new ELSE text)
    ELSE replaceChar(SubSeq(text, 1, Len(text) \div 2), old, new)
            \o replaceChar(SubSeq(text, Len(text) \div 2 + 1, Len(text)), old, new)


(***************************************************************************)
(* Python values.                                                          *)
(***************************************************************************)

PyStr(chars) == [t |-> "str", s |-> chars, n |-> 0, kids |-> <<>>]
PyInt(i) == [t |-> "int", s |-> <<>>, n |-> i, kids |-> <<>>]
\* a float is kept as the literal that was read
PyFloat(literal) == [t |-> "float", s |-> literal, n |-> 0, kids |-> <<>>]
PyTrue == [t |-> "bool", s |-> <<>>, n |-> 1, kids |-> <<>>]
PyFalse == [t |-> "bool", s |-> <<>>, n |-> 0, kids |-> <<>>]
PyNone == [t |-> "None", s |-> <<>>, n |-> 0, kids |-> <<>>]
PyList(members) == [t |-> "list", s |-> <<>>, n |-> 0, kids |-> members]
PyDict(members) == [t |-> "dict", s |-> <<>>, n |-> 0, kids |-> members]

\* one member of a dict (key, value) or of a list (empty key, value)
Member(key, value) == [k |-> key, v |-> value]

\* key in d
HasKey(d, key) == \E i \in 1..Len(d.kids) : d.kids[i].k = key

\* d[key], for a key of d
Lookup(d, key) == d.kids[CHOOSE i \in 1..Len(d.kids) : d.kids[i].k = key].v

\* d.get(key, default)
Get(d, key, default) == IF HasKey(d, key) THEN Lookup(d, key) ELSE default

\* d[key] = value on the members of a dict: a key already present keeps its
\* place and takes the new value
SetMember(members, key, value) ==
    IF \E i \in 1..Len(members) : members[i].k = key
    THEN [i \in 1..Len(members) |->
            IF members[i].k = key THEN Member(key, value) ELSE members[i]]
    ELSE Append(members, Member(key, value))

\* bool(value): Python's truth value
Truthy(value) ==
    CASE value.t = "str" -> value.s # <<>>
      [] value.t = "int" -> value.n # 0
      [] value.t = "bool" -> value.n = 1
      [] value.t = "None" -> FALSE
      [] value.t = "float" ->
            \E i \in 1..Len(value.s) :
                /\ value.s[i] \in {"1", "2", "3", "4", "5", "6", "7", "8", "9", "N", "I"}
                /\ \A j \in 1..(i - 1) : value.s[j] \notin {"e", "E"}
      [] OTHER -> value.kids # <<>>

\* len(value) raises TypeError unless value is a str, a list or a dict
HasLen(value) == value.t \in {"str", "list", "dict"}

(***************************************************************************)
(* json.loads (the standard library decoder, strict mode) on texts whose   *)
(* strings hold no \u and no \b escape.  A result is [ok, v, end]: whether a value   *)
(* was read, the value, and the 0-based position after it.                 *)
(***************************************************************************)

JsonWhitespace == {" ", "\t", "\n", "\r"}
Digits == {"0", "1", "2", "3", "4", "5", "6", "7", "8", "9"}
DigitValue ==
    ("0" :> 0) @@ ("1" :> 1) @@ ("2" :> 2) @@ ("3" :> 3) @@ ("4" :> 4) @@
    ("5" :> 5) @@ ("6" :> 6) @@ ("7" :> 7) @@ ("8" :> 8) @@ ("9" :> 9)
\* the character after a backslash and the character the escape stands for
EscapeMap ==
    ("\"" :> "\"") @@ ("\\" :> "\\") @@ ("/" :> "/") @@
    ("f" :> "\f") @@ ("n" :> "\n") @@ ("r" :> "\r") @@ ("t" :> "\t")
\* characters below U+0020, which a strict JSON string may not hold
ControlChars == {"\n", "\t", "\r", "\f"}

NoValue == [ok |-> FALSE, v |-> PyNone, end |-> 0]
Read(value, end) == [ok |-> TRUE, v |-> value, end |-> end]

\* the character of text at 0-based position i, or "" past the end
At(text, i) == IF i < Len(text) THEN text[i + 1] ELSE ""

\* the position of the first character at or after i that is not whitespace
RECURSIVE SkipWs(_, _)
SkipWs(text, i) ==
    IF At(text, i) \in JsonWhitespace THEN SkipWs(text, i + 1) ELSE i

\* the position after the run of digits that starts at i
RECURSIVE SkipDigits(_, _)
SkipDigits(text, i) ==
    IF At(text, i) \in Digits THEN SkipDigits(text, i + 1) ELSE i

\* the value of a run of digits
RECURSIVE DigitsToInt(_)
DigitsToInt(digits) ==
    IF digits = <<>> THEN 0
    ELSE 10 * DigitsToInt(SubSeq(digits, 1, Len(digits) - 1))
            + DigitValue[digits[Len(digits)]]

\* py_scanstring: the string whose opening quote is just before i; acc holds
\* the characters read so far
RECURSIVE ScanString(_, _, _)
ScanString(text, i, acc) ==
    LET c == At(text, i)
    IN  CASE c = "" -> NoValue
          [] c = "\"" -> Read(PyStr(acc), i + 1)
          [] c \in ControlChars -> NoValue
          [] c = "\\" ->
                IF At(text, i + 1) \in DOMAIN EscapeMap
                THEN ScanString(text, i + 2,
                                Append(acc, EscapeMap[At(text, i + 1)]))
                ELSE NoValue
          [] OTHER -> ScanString(text, i + 1, Append(acc, c))

\* NUMBER_RE at i: (-?(?:0|[1-9]\d*))(\.\d+)?([eE][-+]?\d+)?
ScanNumber(text, i) ==
    LET neg == At(text, i) = "-"
        d0 == IF neg THEN i + 1 ELSE i
        intEnd == IF At(text, d0) = "0" THEN d0 + 1 ELSE SkipDigits(text, d0)
        fracEnd == IF At(text, intEnd) = "." /\ At(text, intEnd + 1) \in Digits
                   THEN SkipDigits(text, intEnd + 1) ELSE intEnd
        expAt == IF At(text, fracEnd + 1) \in {"+", "-"}
                 THEN fracEnd + 2 ELSE fracEnd + 1
        expEnd == IF At(text, fracEnd) \in {"e", "E"} /\ At(text, expAt) \in Digits
                  THEN SkipDigits(text, expAt) ELSE fracEnd
        magnitude == DigitsToInt(Slice(text, d0, intEnd))
    IN  IF intEnd = d0 THEN NoValue
        ELSE IF expEnd = intEnd
             THEN Read(PyInt(IF neg THEN 0 - magnitude ELSE magnitude), intEnd)
             ELSE Read(PyFloat(Slice(text, i, expEnd)), expEnd)

RECURSIVE ScanValue(_, _)
RECURSIVE ScanMembers(_, _, _)
RECURSIVE ScanItems(_, _, _)

\* JSONObject after a key's opening quote at i - 1: the members of the object
\* from that key on; acc holds the members read so far
ScanMembers(text, i, acc) ==
    LET key == ScanString(text, i, <<>>)
        colon == SkipWs(text, key.end)
        val == ScanValue(text, SkipWs(text, colon + 1))
        next == SkipWs(text, val.end)
        after == SkipWs(text, next + 1)
    IN  IF ~key.ok \/ At(text, colon) # ":" THEN NoValue
        ELSE IF ~val.ok THEN NoValue
        ELSE IF At(text, next) = "}"
             THEN Read(PyDict(SetMember(acc, key.v.s, val.v)), next + 1)
        ELSE IF At(text, next) = "," /\ At(text, after) = "\""
             THEN ScanMembers(text, after + 1, SetMember(acc, key.v.s, val.v))
        ELSE NoValue

\* JSONArray from the item at i on; acc holds the items read so far
ScanItems(text, i, acc) ==
    LET val == ScanValue(text, i)
        next == SkipWs(text, val.end)
    IN  IF ~val.ok THEN NoValue
        ELSE IF At(text, next) = "]"
             THEN Read(PyList(Append(acc, Member(<<>>, val.v))), next + 1)
        ELSE IF At(text, next) = ","
             THEN ScanItems(text, SkipWs(text, next + 1),
                            Append(acc, Member(<<>>, val.v)))
        ELSE NoValue

\* scan_once: the JSON value that starts at i
ScanValue(text, i) ==
    LET c == At(text, i)
        open == SkipWs(text, i + 1)
    IN  CASE c = "\"" -> ScanString(text, i + 1, <<>>)
          [] c = "{" ->
                IF At(text, open) = "}" THEN Read(PyDict(<<>>), open + 1)
                ELSE IF At(text, open) = "\"" THEN ScanMembers(text, open + 1, <<>>)
                ELSE NoValue
          [] c = "[" ->
                IF At(text, open) = "]" THEN Read(PyList(<<>>), open + 1)
                ELSE ScanItems(text, open, <<>>)
          [] c = "n" /\ OccursAt(text, <<"n", "u", "l", "l">>, i) ->
                Read(PyNone, i + 4)
          [] c = "t" /\ OccursAt(text, <<"t", "r", "u", "e">>, i) ->
                Read(PyTrue, i + 4)
          [] c = "f" /\ OccursAt(text, <<"f", "a", "l", "s", "e">>, i) ->
                Read(PyFalse, i + 5)
          [] c \in Digits \/ (c = "-" /\ At(text, i + 1) \in Digits) ->
                ScanNumber(text, i)
          [] c = "N" /\ OccursAt(text, <<"N", "a", "N">>, i) ->
                Read(PyFloat(<<"N", "a", "N">>), i + 3)
          [] c = "I" /\ OccursAt(text, <<"I", "n", "f", "i", "n", "i", "t", "y">>, i) ->
                Read(PyFloat(Slice(text, i, i + 8)), i + 8)
          [] c = "-" /\ OccursAt(text, <<"I", "n", "f", "i", "n", "i", "t", "y">>, i + 1) ->
                Read(PyFloat(Slice(text, i, i + 9)), i + 9)
          [] OTHER -> NoValue

\* json.loads(text): [ok |-> FALSE] stands for json.JSONDecodeError
json_loads(text) ==
    LET Whole(val) ==
            IF val.ok /\ SkipWs(text, val.end) = Len(text)
            THEN [ok |-> TRUE, v |-> val.v]
            ELSE [ok |-> FALSE, v |-> PyNone]
    IN  Whole(ScanValue(text, SkipWs(text, 0)))

(***************************************************************************)
(* The string literals of src/src/sim_generator.py.                        *)
(***************************************************************************)

\* 'index.html'
K_index_html == <<"i", "n", "d", "e", "x", ".", "h", "t", "m", "l">>

\* 'Concept'
K_Concept == <<"C", "o", "n", "c", "e", "p", "t">>

\* 'Description'
K_Description == <<"D", "e", "s", "c", "r", "i", "p", "t", "i", "o", "n">>

\* 'text'
K_text == <<"t", "e", "x", "t">>

\* '```'
S_fence == <<Backtick, Backtick, Backtick>>

\* 'json'
S_json == <<"j", "s", "o", "n">>

\* 'html'
S_html == <<"h", "t", "m", "l">>

\* '<!doctype'
S_doctype == <<"<", "!", "d", "o", "c", "t", "y", "p", "e">>

\* '<html'
S_html_open == <<"<", "h", "t", "m", "l">>

\* '</html>'
S_html_close == <<"<", "/", "h", "t", "m", "l", ">">>

\* '<style'
S_style_open == <<"<", "s", "t", "y", "l", "e">>

\* '<!DOCTYPE html>'
S_DOCTYPE_html ==
    <<"<", "!", "D", "O", "C", "T", "Y", "P", "E", " ", "h", "t", "m", "l",
      ">">>

\* '<!doctype html>'
S_doctype_html ==
    <<"<", "!", "d", "o", "c", "t", "y", "p", "e", " ", "h", "t", "m", "l",
      ">">>

\* '<meta name="viewport"'
S_meta_viewport ==
    <<"<", "m", "e", "t", "a", " ", "n", "a", "m", "e", "=", "\"", "v", "i",
      "e", "w", "p", "o", "r", "t", "\"">>

\* '<style>'
S_style_tag == <<"<", "s", "t", "y", "l", "e", ">">>

\* 'style='
S_style_attr == <<"s", "t", "y", "l", "e", "=">>

\* '<head>'
S_head == <<"<", "h", "e", "a", "d", ">">>

\* '<HEAD>'
S_HEAD == <<"<", "H", "E", "A", "D", ">">>

\* '<html>'
S_html_tag == <<"<", "h", "t", "m", "l", ">">>

\* '<HTML>'
S_HTML_tag == <<"<", "H", "T", "M", "L", ">">>

\* '<meta name="viewport" content="width=device-width, initial-scale=1.0">'
S_insert ==
    <<"<", "m", "e", "t", "a", " ", "n", "a", "m", "e", "=", "\"", "v", "i",
      "e", "w", "p", "o", "r", "t", "\"", " ", "c", "o", "n", "t", "e", "n",
      "t", "=", "\"", "w", "i", "d", "t", "h", "=", "d", "e", "v", "i", "c",
      "e", "-", "w", "i", "d", "t", "h", ",", " ", "i", "n", "i", "t", "i",
      "a", "l", "-", "s", "c", "a", "l", "e", "=", "1", ".", "0", "\"", ">">>

\* the markers of an interactive control (check_minimum_requirements)
S_controls ==
    { <<"<", "i", "n", "p", "u", "t">>,
      <<"<", "b", "u", "t", "t", "o", "n">>,
      <<"<", "s", "e", "l", "e", "c", "t">>,
      <<"o", "n", "c", "l", "i", "c", "k">>,
      <<"a", "d", "d", "E", "v", "e", "n", "t", "L", "i", "s", "t", "e", "n",
        "e", "r">> }

(***************************************************************************)
(* json.dumps(value, indent=2, ensure_ascii=False) on characters below     *)
(* U+0080 (for which ensure_ascii makes no difference).                    *)
(***************************************************************************)

DigitChar == <<"0", "1", "2", "3", "4", "5", "6", "7", "8", "9">>

\* str(i) for an int i >= 0
RECURSIVE NatToText(_)
NatToText(i) ==
    IF i < 10 THEN <<DigitChar[i + 1]>>
    ELSE NatToText(i \div 10) \o <<DigitChar[(i % 10) + 1]>>

\* str(i) for an int
IntToText(i) == IF i < 0 THEN <<"-">> \o NatToText(0 - i) ELSE NatToText(i)

\* the character and the escape json.dumps writes for it
DumpEscape ==
    ("\"" :> <<"\\", "\"">>) @@ ("\\" :> <<"\\", "\\">>) @@
    ("\n" :> <<"\\", "n">>) @@ ("\r" :> <<"\\", "r">>) @@
    ("\t" :> <<"\\", "t">>) @@ ("\f" :> <<"\\", "f">>)

\* the characters of a str between the quotes json.dumps writes
RECURSIVE EscapeText(_)
EscapeText(chars) ==
    IF chars = <<>> THEN <<>>
    ELSE (IF Head(chars) \in DOMAIN DumpEscape
          THEN DumpEscape[Head(chars)] ELSE <<Head(chars)>>)
            \o EscapeText(Tail(chars))

\* encode_basestring: a str as JSON
QuoteText(chars) == <<"\"">> \o EscapeText(chars) \o <<"\"">>

\* the newline and the indentation that start a line at nesting depth
RECURSIVE NewlineIndent(_)
NewlineIndent(depth) ==
    IF depth = 0 THEN <<"\n">> ELSE NewlineIndent(depth - 1) \o <<" ", " ">>

RECURSIVE DumpValue(_, _)
RECURSIVE DumpMembers(_, _, _, _)

\* the members of a list (isDict = FALSE) or a dict from member i on, each on
\* a line of its own at nesting depth
DumpMembers(members, i, depth, isDict) ==
    IF i > Len(members) THEN <<>>
    ELSE NewlineIndent(depth)
            \o (IF isDict THEN QuoteText(members[i].k) \o <<":", " ">> ELSE <<>>)
            \o DumpValue(members[i].v, depth)
            \o (IF i < Len(members) THEN <<",">> ELSE <<>>)
            \o DumpMembers(members, i + 1, depth, isDict)

\* _iterencode: value as JSON, inside a container at nesting depth
DumpValue(value, depth) ==
    CASE value.t = "str" -> QuoteText(value.s)
      [] value.t = "int" -> IntToText(value.n)
      [] value.t = "float" -> value.s
      [] value.t = "bool" ->
            IF value.n = 1 THEN <<"t", "r", "u", "e">>
            ELSE <<"f", "a", "l", "s", "e">>
      [] value.t = "None" -> <<"n", "u", "l", "l">>
      [] value.t = "list" ->
            IF value.kids = <<>> THEN <<"[", "]">>
            ELSE <<"[">> \o DumpMembers(value.kids, 1, depth + 1, FALSE)
                    \o NewlineIndent(depth) \o <<"]">>
      [] OTHER ->
            IF value.kids = <<>> THEN <<"{", "}">>
            ELSE <<"{">> \o DumpMembers(value.kids, 1, depth + 1, TRUE)
                    \o NewlineIndent(depth) \o <<"}">>

\* json.dumps(value, indent=2, ensure_ascii=False)
json_dumps(value) == DumpValue(value, 0)

(***************************************************************************)
(* Results of a call that may raise: the value returned, or the exception. *)
(* An exception is [kind, snippet]: the fixed part of its message and the  *)
(* text the message quotes.                                                *)
(***************************************************************************)

NoError == [kind |-> "", snippet |-> <<>>]
Return(value) == [ok |-> TRUE, v |-> value, err |-> NoError]
Raise(kind, snippet) ==
    [ok |-> FALSE, v |-> PyNone, err |-> [kind |-> kind, snippet |-> snippet]]

\* str(value) for a str, an int, a bool or None
str_of(value) ==
    CASE value.t = "str" -> value.s
      [] value.t = "int" -> IntToText(value.n)
      [] value.t = "bool" ->
            IF value.n = 1 THEN <<"T", "r", "u", "e">>
            ELSE <<"F", "a", "l", "s", "e">>
      [] value.t = "None" -> <<"N", "o", "n", "e">>

(***************************************************************************)
(* src/src/sim_generator.py: the extraction helpers.                       *)
(***************************************************************************)

\* safe_json_parse, lines 34-41: the parts of a list content joined; a part
\* that is a dict with a "text" key gives that text, any other part its str
RECURSIVE JoinParts(_, _)
JoinParts(parts, i) ==
    IF i > Len(parts) THEN <<>>
    ELSE (IF parts[i].v.t = "dict" /\ HasKey(parts[i].v, K_text)
          THEN Lookup(parts[i].v, K_text).s
          ELSE str_of(parts[i].v))
            \o JoinParts(parts, i + 1)

\* safe_json_parse, lines 34-43: str(content).strip()
NormalizeContent(content) ==
    strip(IF content.t = "list" THEN JoinParts(content.kids, 1)
          ELSE str_of(content))

\* lines 49-54: a text that starts with a fence loses its backticks at both
\* ends and then its first four characters when it starts with json or html
StripFence(text) ==
    LET StripLabel(inner) ==
            IF startswith(lower(inner), S_json) THEN lstrip(SliceFrom(inner, 4))
            ELSE IF startswith(lower(inner), S_html) THEN lstrip(SliceFrom(inner, 4))
            ELSE inner
    IN  IF startswith(text, S_fence)
        THEN StripLabel(strip(stripChars(text, {Backtick})))
        ELSE text

\* the position of the first brace at or after i, or the end of the text
NextBrace(text, i) ==
    IF \E p \in i..(Len(text) - 1) : At(text, p) \in {"{", "}"}
    THEN CHOOSE p \in i..(Len(text) - 1) :
            /\ At(text, p) \in {"{", "}"}
            /\ \A q \in i..(p - 1) : At(text, q) \notin {"{", "}"}
    ELSE IF i > Len(text) THEN i ELSE Len(text)

\* the pattern \{[^{}]*\}, which takes no brace inside the braces
RECURSIVE MatchBodyFlat(_, _)
MatchBodyFlat(text, i) ==
    LET c == At(text, i)
    IN  CASE c = "" -> -1
          [] c = "}" -> i + 1
          [] c = "{" -> -1
          [] OTHER -> MatchBodyFlat(text, i + 1)

\* the pattern \{(?:[^{}]|(?:\{[^{}]*\}))*\} from the character after its
\* opening brace: the position after the match, or -1.  At every position
\* the pattern has one way to go on, so backtracking finds nothing more.
RECURSIVE MatchBody(_, _)
MatchBody(text, i) ==
    LET c == At(text, i)
        inner == NextBrace(text, i + 1)
    IN  CASE c = "" -> -1
          [] c = "}" -> i + 1
          [] c = "{" ->
                IF At(text, inner) = "}" THEN MatchBody(text, inner + 1) ELSE -1
          [] OTHER -> MatchBody(text, NextBrace(text, i))

\* the pattern matched at position i
MatchAt(text, i) == IF At(text, i) = "{" THEN MatchBody(text, i + 1) ELSE -1

\* line 62, re.search: the leftmost match, [found, start, end]
re_search(text) ==
    LET MatchFrom(start) ==
            [found |-> TRUE, start |-> start, end |-> MatchAt(text, start)]
    IN  IF \E i \in 0..(Len(text) - 1) : MatchAt(text, i) # -1
        THEN MatchFrom(CHOOSE i \in 0..(Len(text) - 1) :
                        /\ MatchAt(text, i) # -1
                        /\ \A j \in 0..(i - 1) : MatchAt(text, j) = -1)
        ELSE [found |-> FALSE, start |-> -1, end |-> -1]

\* the length of the text an error message quotes
SnippetLen == 300

\* text[:300].replace("\n", "\\n")
Snippet(text) == replaceChar(Slice(text, 0, SnippetLen), "\n", <<"\\", "n">>)

\* a fallback that looks for <html and <!doctype only
ParseCandidateNoStyle(json_str) ==
    LET Loaded(parsed, low) ==
            IF parsed.ok THEN Return(parsed.v)
            ELSE IF Contains(low, S_html_open) \/ Contains(low, S_doctype)
                 THEN Return(PyDict(<<Member(K_index_html, PyStr(json_str))>>))
            ELSE Raise("safe_json_parse: JSON decode failed", Snippet(json_str))
    IN  Loaded(json_loads(json_str), lower(json_str))

\* lines 79-89: the candidate span parsed, or wrapped when it looks like HTML
ParseCandidate(json_str) ==
    LET Loaded(parsed, low) ==
            IF parsed.ok THEN Return(parsed.v)
            ELSE IF \/ Contains(low, S_html_open)
                    \/ Contains(low, S_doctype)
                    \/ Contains(low, S_style_open)
                 THEN Return(PyDict(<<Member(K_index_html, PyStr(json_str))>>))
            ELSE Raise("safe_json_parse: JSON decode failed", Snippet(json_str))
    IN  Loaded(json_loads(json_str), lower(json_str))

\* lines 34-77: the candidate span json_str that safe_json_parse reaches line
\* 79 with, for raw the content of a response; found is FALSE when it
\* returns or raises before
json_str_of(raw) ==
    LET Search(text, match, first_brace, last_brace) ==
            IF match.found
            THEN [found |-> TRUE, text |-> Slice(text, match.start, match.end)]
            ELSE IF first_brace # -1 /\ last_brace # -1 /\ last_brace > first_brace
            THEN [found |-> TRUE, text |-> Slice(text, first_brace, last_brace + 1)]
            ELSE [found |-> FALSE, text |-> <<>>]
        Unfenced(text, stripped_lower) ==
            IF \/ text = <<>>
               \/ startswith(stripped_lower, S_doctype)
               \/ startswith(stripped_lower, S_html_open)
            THEN [found |-> FALSE, text |-> <<>>]
            ELSE Search(text, re_search(text), find(text, <<"{">>),
                        rfind(text, <<"}">>))
        Fenced(text) == Unfenced(text, lower(lstrip(text)))
    IN  Fenced(StripFence(NormalizeContent(raw)))

\* safe_json_parse(raw), for raw the content of a response
safe_json_parse(raw) ==
    LET \* lines 61-89, for the span json_str the search gives (<<>> for none)
        Found(text, low, found, json_str) ==
            IF found THEN ParseCandidate(json_str)
            ELSE IF Contains(low, S_html_open) \/ Contains(low, S_doctype)
            THEN Return(PyDict(<<Member(K_index_html, PyStr(text))>>))
            ELSE Raise("safe_json_parse: Could not find JSON", Snippet(text))
        \* lines 61-68
        Search(text, match, first_brace, last_brace) ==
            IF match.found
            THEN Found(text, <<>>, TRUE, Slice(text, match.start, match.end))
            ELSE IF first_brace # -1 /\ last_brace # -1 /\ last_brace > first_brace
            THEN Found(text, <<>>, TRUE, Slice(text, first_brace, last_brace + 1))
            ELSE Found(text, lower(text), FALSE, <<>>)
        \* lines 56-59
        Unfenced(text, stripped_lower) ==
            IF \/ startswith(stripped_lower, S_doctype)
               \/ startswith(stripped_lower, S_html_open)
            THEN Return(PyDict(<<Member(K_index_html, PyStr(text))>>))
            ELSE Search(text, re_search(text), find(text, <<"{">>),
                        rfind(text, <<"}">>))
        Fenced(text) == Unfenced(text, lower(lstrip(text)))
        \* lines 43-54
        Normalized(text0) ==
            IF text0 = <<>>
            THEN Raise("safe_json_parse: LLM returned empty content", <<>>)
            ELSE Fenced(StripFence(text0))
    IN  Normalized(NormalizeContent(raw))

\* extract_html_from_response(response_content): the value returned (a str,
\* or whatever the response's JSON holds under "index.html")
extract_html_from_response(response_content) ==
    LET \* lines 131-141
        Span(text, start_pos, end_pos) ==
            IF start_pos # -1
            THEN IF end_pos # -1
                 THEN PyStr(Slice(text, start_pos, end_pos + Len(S_html_close)))
                 ELSE PyStr(SliceFrom(text, start_pos))
            ELSE PyStr(text)
        \* lines 121-129
        Within(text, doctype_start, html_start, end_pos) ==
            Span(text,
                 IF doctype_start # -1 THEN doctype_start
                 ELSE IF html_start # -1 THEN html_start
                 ELSE -1,
                 end_pos)
        \* lines 108-118
        Unfenced(text, stripped_lower, data, low) ==
            IF \/ startswith(stripped_lower, S_doctype)
               \/ startswith(stripped_lower, S_html_open)
            THEN PyStr(text)
            ELSE IF data.ok /\ data.v.t = "dict" /\ HasKey(data.v, K_index_html)
            THEN Lookup(data.v, K_index_html)
            ELSE Within(text, find(low, S_doctype), find(low, S_html_open),
                        rfind(low, S_html_close))
        Fenced(text) ==
            Unfenced(text, lower(lstrip(text)), json_loads(text), lower(text))
    IN  Fenced(StripFence(strip(str_of(response_content))))

\* lines 208-211: default_vars
DefaultVars ==
    PyList(<<
        Member(<<>>, PyDict(<<
                         Member(<<"n", "a", "m", "e">>, PyStr(<<"I", "n", "t",
                                                           "e", "n", "s",
                                                           "i", "t", "y">>)),
                         Member(<<"m", "i", "n">>, PyInt(0)),
                         Member(<<"m", "a", "x">>, PyInt(100)),
                         Member(<<"d", "e", "f", "a", "u", "l", "t">>, PyInt(50)),
                         Member(<<"u", "n", "i", "t">>, PyStr(<<"%">>)) >>)),
        Member(<<>>, PyDict(<<
                         Member(<<"n", "a", "m", "e">>, PyStr(<<"T", "i", "m",
                                                           "e">>)),
                         Member(<<"m", "i", "n">>, PyInt(1)),
                         Member(<<"m", "a", "x">>, PyInt(60)),
                         Member(<<"d", "e", "f", "a", "u", "l", "t">>, PyInt(10)),
                         Member(<<"u", "n", "i", "t">>, PyStr(<<"s">>)) >>)) >>)

\* lines 216-219: default_vars for a concept about heat or temperature
HeatVars ==
    PyList(<<
        Member(<<>>, PyDict(<<
                         Member(<<"n", "a", "m", "e">>, PyStr(<<"T", "e", "m",
                                                           "p", "e", "r",
                                                           "a", "t", "u",
                                                           "r", "e">>)),
                         Member(<<"m", "i", "n">>, PyInt(0)),
                         Member(<<"m", "a", "x">>, PyInt(100)),
                         Member(<<"d", "e", "f", "a", "u", "l", "t">>, PyInt(25)),
                         Member(<<"u", "n", "i", "t">>, PyStr(<<DegreeSign, "C">>)) >>)),
        Member(<<>>, PyDict(<<
                         Member(<<"n", "a", "m", "e">>, PyStr(<<"M", "a", "t",
                                                           "e", "r", "i",
                                                           "a", "l">>)),
                         Member(<<"m", "i", "n">>, PyInt(1)),
                         Member(<<"m", "a", "x">>, PyInt(3)),
                         Member(<<"d", "e", "f", "a", "u", "l", "t">>, PyInt(1)),
                         Member(<<"u", "n", "i", "t">>, PyStr(<<"c", "h", "o",
                                                           "i", "c", "e">>)) >>)) >>)

\* the number of characters of the description the instructions quote
DescriptionLen == 200

\* generate_default_blueprint_from_spec(spec), for a spec whose Concept and
\* Description, when present, are a str, an int, a bool or None
generate_default_blueprint_from_spec(spec) ==
    LET concept == Get(spec, K_Concept, PyStr(<<"U", "n", "k", "n", "o", "w", "n",
                                         " ", "C", "o", "n", "c", "e", "p",
                                         "t">>))
        short_desc ==
            Get(spec, K_Description,
                PyStr(<<"A", " ", "s", "i", "m", "p", "l", "e", " ", "s",
                        "i", "m", "u", "l", "a", "t", "i", "o", "n", " ",
                        "a", "b", "o", "u", "t", " ">>
                    \o str_of(concept) \o <<".">>))
        topic_lower == lower(str_of(concept))
        default_vars ==
            IF \/ Contains(topic_lower, <<"h", "e", "a", "t">>)
               \/ Contains(topic_lower, <<"t", "e", "m", "p", "e", "r", "a",
                                        "t", "u", "r", "e">>)
            THEN HeatVars ELSE DefaultVars
    IN  PyDict(<<
        Member(<<"l", "e", "a", "r", "n", "i", "n", "g", "_", "o", "b", "j",
                 "e", "c", "t", "i", "v", "e", "s">>,
            PyList(<<
            Member(<<>>, PyStr(<<"U", "n", "d", "e", "r", "s", "t", "a", "n",
                                 "d", " ", "w", "h", "a", "t", " ">>
                \o str_of(concept) \o <<" ", "m", "e", "a", "n", "s", ".">>)),
            Member(<<>>, PyStr(<<"S", "e", "e", " ", "h", "o", "w", " ", "c",
                                 "h", "a", "n", "g", "i", "n", "g", " ", "o",
                                 "n", "e", " ", "v", "a", "r", "i", "a", "b",
                                 "l", "e", " ", "a", "f", "f", "e", "c", "t",
                                 "s", " ", "t", "h", "e", " ", "o", "u", "t",
                                 "c", "o", "m", "e", ".">>)),
            Member(<<>>, PyStr(<<"L", "e", "a", "r", "n", " ", "t", "o", " ",
                                 "r", "e", "c", "o", "r", "d", " ", "s", "i",
                                 "m", "p", "l", "e", " ", "o", "b", "s", "e",
                                 "r", "v", "a", "t", "i", "o", "n", "s", ".">>)) >>)),
        Member(<<"k", "e", "y", "_", "c", "o", "n", "c", "e", "p", "t", "s">>,
            PyList(<<
            Member(<<>>, concept),
            Member(<<>>, PyStr(<<"c", "a", "u", "s", "e", " ", "a", "n", "d",
                                 " ", "e", "f", "f", "e", "c", "t">>)),
            Member(<<>>, PyStr(<<"v", "a", "r", "i", "a", "b", "l", "e", "s",
                                 " ", "a", "n", "d", " ", "o", "b", "s", "e",
                                 "r", "v", "a", "t", "i", "o", "n">>)) >>)),
        Member(<<"v", "a", "r", "i", "a", "b", "l", "e", "s", "_", "t", "o",
                 "_", "s", "i", "m", "u", "l", "a", "t", "e">>,
            PyList(Slice(default_vars.kids, 0, 2))),
        Member(<<"u", "s", "e", "r", "_", "i", "n", "t", "e", "r", "a", "c",
                 "t", "i", "o", "n", "s">>,
            PyDict(<<
            Member(<<"s", "l", "i", "d", "e", "r", "s">>,
                PyList([i \in 1..Len(Slice(default_vars.kids, 0, 2)) |->
                    Member(<<>>, PyStr(<<"S", "l", "i", "d", "e", "r", " ",
                                         "t", "o", " ", "s", "e", "t", " ">>
                        \o str_of(Lookup(default_vars.kids[i].v, <<"n", "a", "m",
                                                              "e">>))))])),
            Member(<<"b", "u", "t", "t", "o", "n", "s">>,
                PyList(<<
                    Member(<<>>, PyStr(<<"S", "t", "a", "r", "t", " ", "s",
                                          "i", "m", "u", "l", "a", "t", "i",
                                          "o", "n">>)),
                    Member(<<>>, PyStr(<<"R", "e", "s", "e", "t", " ", "t",
                                          "o", " ", "d", "e", "f", "a", "u",
                                          "l", "t", "s">>)) >>)),
            Member(<<"o", "t", "h", "e", "r">>,
                PyStr(<<"T", "a", "p", " ", "t", "o", " ", "p", "a", "u",
                        "s", "e", " ", "o", "r", " ", "t", "o", "u", "c",
                        "h", "-", "d", "r", "a", "g", " ", "s", "m", "a",
                        "l", "l", " ", "o", "b", "j", "e", "c", "t", "s">>)) >>)),
        Member(<<"s", "i", "m", "u", "l", "a", "t", "i", "o", "n", "_", "l",
                 "o", "g", "i", "c">>,
            PyList(<<
                Member(<<>>, PyStr(<<"S", "t", "e", "p", " ", "1", ":", " ",
                                      "R", "e", "a", "d", " ", "c", "u", "r",
                                      "r", "e", "n", "t", " ", "v", "a", "l",
                                      "u", "e", "s", " ", "o", "f", " ", "c",
                                      "o", "n", "t", "r", "o", "l", "s", ".">>)),
                Member(<<>>, PyStr(<<"S", "t", "e", "p", " ", "2", ":", " ",
                                      "U", "p", "d", "a", "t", "e", " ", "t",
                                      "h", "e", " ", "v", "i", "s", "u", "a",
                                      "l", " ", "a", "r", "e", "a", " ", "t",
                                      "o", " ", "r", "e", "f", "l", "e", "c",
                                      "t", " ", "t", "h", "e", " ", "n", "e",
                                      "w", " ", "v", "a", "l", "u", "e", "s",
                                      ".">>)),
                Member(<<>>, PyStr(<<"S", "t", "e", "p", " ", "3", ":", " ",
                                      "I", "f", " ", "S", "t", "a", "r", "t",
                                      " ", "p", "r", "e", "s", "s", "e", "d",
                                      ",", " ", "a", "n", "i", "m", "a", "t",
                                      "e", " ", "c", "h", "a", "n", "g", "e",
                                      "s", " ", "o", "v", "e", "r", " ", "t",
                                      "i", "m", "e", ".">>)) >>)),
        Member(<<"m", "o", "b", "i", "l", "e", "_", "u", "i", "_", "p", "l",
                 "a", "n">>,
            PyDict(<<
            Member(<<"l", "a", "y", "o", "u", "t">>,
                PyStr(<<"v", "e", "r", "t", "i", "c", "a", "l", " ", "s",
                        "i", "n", "g", "l", "e", " ", "c", "o", "l", "u",
                        "m", "n">>)),
            Member(<<"s", "e", "c", "t", "i", "o", "n", "s">>,
                PyList(<<
                    Member(<<>>, PyStr(<<"H", "e", "a", "d", "e", "r">>)),
                    Member(<<>>, PyStr(<<"I", "n", "s", "t", "r", "u", "c",
                                          "t", "i", "o", "n", "s">>)),
                    Member(<<>>, PyStr(<<"S", "i", "m", "u", "l", "a", "t",
                                          "i", "o", "n", " ", "a", "r", "e",
                                          "a">>)),
                    Member(<<>>, PyStr(<<"C", "o", "n", "t", "r", "o", "l",
                                          "s">>)),
                    Member(<<>>, PyStr(<<"Q", "u", "e", "s", "t", "i", "o",
                                          "n", "s">>)) >>)),
            Member(<<"t", "o", "u", "c", "h", "_", "t", "a", "r", "g", "e",
                     "t", "s">>,
                PyStr(<<"m", "i", "n", "i", "m", "u", "m", " ", "4", "4",
                        "p", "x">>)) >>)),
        Member(<<"m", "i", "s", "c", "o", "n", "c", "e", "p", "t", "i", "o",
                 "n", "s", "_", "t", "o", "_", "a", "d", "d", "r", "e", "s",
                 "s">>,
            PyList(<<
                Member(<<>>, PyStr(<<"M", "o", "r", "e", " ", "o", "f", " ",
                                      "s", "o", "m", "e", "t", "h", "i", "n",
                                      "g", " ", "a", "l", "w", "a", "y", "s",
                                      " ", "m", "e", "a", "n", "s", " ", "f",
                                      "a", "s", "t", "e", "r", " ", "c", "h",
                                      "a", "n", "g", "e", " ", "(", "n", "o",
                                      "t", " ", "a", "l", "w", "a", "y", "s",
                                      " ", "t", "r", "u", "e", ")", ".">>)),
                Member(<<>>, PyStr(<<"I", "f", " ", "t", "w", "o", " ", "m",
                                      "a", "t", "e", "r", "i", "a", "l", "s",
                                      " ", "l", "o", "o", "k", " ", "t", "h",
                                      "e", " ", "s", "a", "m", "e", " ", "t",
                                      "h", "e", "y", " ", "b", "e", "h", "a",
                                      "v", "e", " ", "t", "h", "e", " ", "s",
                                      "a", "m", "e", " ", "(", "n", "o", "t",
                                      " ", "a", "l", "w", "a", "y", "s", " ",
                                      "t", "r", "u", "e", ")", ".">>)) >>)),
        Member(<<"t", "e", "x", "t", "_", "i", "n", "s", "t", "r", "u", "c",
                 "t", "i", "o", "n", "s", "_", "f", "o", "r", "_", "s", "t",
                 "u", "d", "e", "n", "t", "s">>,
            PyStr(Slice(str_of(short_desc), 0, DescriptionLen)
                \o <<" ", "U", "s", "e", " ", "t", "h", "e", " ", "s", "l",
                     "i", "d", "e", "r", "s", " ", "a", "n", "d", " ", "S",
                     "t", "a", "r", "t", " ", "b", "u", "t", "t", "o", "n",
                     " ", "t", "o", " ", "e", "x", "p", "l", "o", "r", "e",
                     ".">>)),
        Member(<<"f", "i", "l", "e", "_", "t", "a", "r", "g", "e", "t">>,
            PyStr(<<"s", "i", "n", "g", "l", "e", "_", "f", "i", "l", "e",
                    "_", "h", "t", "m", "l">>)),
        Member(<<"s", "a", "f", "e", "t", "y", "_", "c", "o", "n", "s", "t",
                 "r", "a", "i", "n", "t", "s">>,
            PyList(<<
                Member(<<>>, PyStr(<<"N", "o", " ", "r", "e", "a", "l", " ",
                                      "h", "e", "a", "t", " ", "s", "o", "u",
                                      "r", "c", "e", "s", " ", "s", "h", "o",
                                      "w", "n", ";", " ", "k", "e", "e", "p",
                                      " ", "e", "x", "a", "m", "p", "l", "e",
                                      "s", " ", "c", "o", "n", "c", "e", "p",
                                      "t", "u", "a", "l", ".">>)) >>)) >>)

\* sub in value: a substring of a str, an item of a list, a key of a dict
InValue(sub, value) ==
    CASE value.t = "str" -> Contains(value.s, sub)
      [] value.t = "list" ->
            \E i \in 1..Len(value.kids) : value.kids[i].v = PyStr(sub)
      [] value.t = "dict" -> HasKey(value, sub)

\* check_minimum_requirements(html): the issues found, each named by the
\* requirement that is missing; TypeError when html is no str, list or dict
check_minimum_requirements(html) ==
    IF html.t \notin {"str", "list", "dict"}
    THEN [ok |-> FALSE, issues |-> {}, err |-> [kind |-> "TypeError", snippet |-> <<>>]]
    ELSE [ok |-> TRUE,
          issues |->
            (IF ~InValue(S_DOCTYPE_html, html) /\ ~InValue(S_doctype_html, html)
             THEN {"Missing DOCTYPE declaration."} ELSE {})
            \cup (IF ~InValue(S_meta_viewport, html)
                  THEN {"Missing viewport meta tag for mobile."} ELSE {})
            \cup (IF ~\E control \in S_controls : InValue(control, html)
                  THEN {"No interactive controls found."} ELSE {})
            \cup (IF ~InValue(S_style_tag, html) /\ ~InValue(S_style_attr, html)
                  THEN {"No styling found (inline or embedded)."} ELSE {}),
          err |-> NoError]

\* lines 179-190 of enforce_minimum_requirements: the viewport tag added
\* after the first <head> or <HEAD>, or in a head added after the first
\* <html> or <HTML>
AddViewport(html, low) ==
    IF Contains(low, S_meta_viewport) THEN html
    ELSE IF Contains(low, S_head)
    THEN replace1(html, S_head, S_head \o <<"\n", " ", " ", " ", " ">> \o S_insert)
    ELSE IF Contains(html, S_HEAD)
    THEN replace1(html, S_HEAD, S_HEAD \o <<"\n", " ", " ", " ", " ">> \o S_insert)
    ELSE IF Contains(low, S_html_tag)
    THEN replace1(html, S_html_tag,
                  S_html_tag \o <<"\n">> \o S_head \o <<"\n", " ", " ", " ", " ">>
                    \o S_insert \o <<"\n", "<", "/", "h", "e", "a", "d", ">">>)
    ELSE IF Contains(html, S_HTML_tag)
    THEN replace1(html, S_HTML_tag,
                  S_HTML_tag \o <<"\n">> \o S_head \o <<"\n", " ", " ", " ", " ">>
                    \o S_insert \o <<"\n", "<", "/", "h", "e", "a", "d", ">">>)
    ELSE html

\* enforce_minimum_requirements(html): AttributeError when html is no str
enforce_minimum_requirements(html) ==
    LET Enforced(low) ==
            IF ~Contains(low, S_doctype)
            THEN Return(PyStr(S_DOCTYPE_html \o <<"\n">> \o AddViewport(html.s, low)))
            ELSE Return(PyStr(AddViewport(html.s, low)))
    IN  IF html.t # "str" THEN Raise("AttributeError", <<>>)
        ELSE Enforced(lower(html.s))

(***************************************************************************)
(* src/src/sim_generator.py: generate_simulation_with_checks, one run.     *)
(*                                                                         *)
(* The inputs of the run are fixed by Init: the spec file, the flag        *)
(* save_intermediates and the chain objects that have an invoke method.    *)
(* Each chain is a completion provider: an invocation raises or returns a  *)
(* response whose content is a str, chosen when the stage runs.            *)
(***************************************************************************)

VARIABLES
    pc,                 \* the step of generate_simulation_with_checks to run next
    spec_file,          \* the file at spec_path: [exists, text]
    save_intermediates, \* the parameter save_intermediates
    chains,             \* the chain parameters that have an invoke method
    output_dir,         \* the directory of the run, "" before it is made
    files,              \* the files of output_dir: name -> [kind, body]
    log,                \* the invocations and file writes so far, in order
    spec,               \* the local spec
    spec_json,          \* the local spec_json
    plan_data,          \* the local plan_data
    plan_json,          \* the local plan_json
    html,               \* the local html
    passed,             \* the local passed
    result,             \* the tuple returned: [passed, html, output_dir]
    max_iterations,     \* LangGraph pipeline: the parameter max_iterations
    state,              \* LangGraph pipeline: the SimulationState of the run
    clock,              \* output directories: the second datetime.now() is in
    run_dirs,           \* output directories: run -> the directory made for it
    sample,             \* extraction helpers: the response a helper is given
    applied             \* extraction helpers: the helper applied and its result

vars == <<pc, spec_file, save_intermediates, chains, output_dir, files, log,
          spec, spec_json, plan_data, plan_json, html, passed, result,
          max_iterations, state, clock, run_dirs, sample, applied>>

\* the variables of the output directories of several runs alone
dirVars == <<clock, run_dirs>>

\* the variables of the extraction helpers applied on their own alone
extractVars == <<sample, applied>>

\* the variables of the LangGraph pipeline alone
graphVars == <<max_iterations, state>>

\* the variables of generate_simulation_with_checks alone
sequentialVars == <<save_intermediates, chains, plan_data, plan_json, html, passed>>

\* the chain parameters, in the order line 319 checks them
ChainNames ==
    <<"planner_chain", "creation_chain", "bugfix_chain",
      "student_interaction_chain", "incorporate_feedback_chain", "review_chain">>

\* a response of a chain: the invocation raised, or returned this content
Raised == [raised |-> TRUE, content |-> PyNone]
Reply(text) == [raised |-> FALSE, content |-> PyStr(text)]

\* the exception a chain raises
ProviderError == [kind |-> "provider error", snippet |-> <<>>]

\* one entry of log: chain.invoke(kwargs) with what the invocation did, or a
\* write of a file of output_dir
Invoked(chain, kwargs, reply) ==
    [ev |-> "invoke", who |-> chain, arg |-> kwargs, reply |-> reply]
Wrote(name) == [ev |-> "write", who |-> name, arg |-> PyNone, reply |-> Raised]

\* the content of a file: a text (kind "text"), or str(e) of an exception e,
\* kept as the exception's kind and the text its message quotes
TextFile(chars) == [kind |-> "text", body |-> chars]
ErrorFile(err) == [kind |-> err.kind, body |-> err.snippet]

\* The effects of a step, in the order the code has them: each is an
\* invocation or a write, a write with the content written.
EInvoke(chain, kwargs, reply) ==
    <<[ev |-> "invoke", who |-> chain, arg |-> kwargs, reply |-> reply,
       content |-> TextFile(<<>>)]>>
EWrite(name, content) ==
    <<[ev |-> "write", who |-> name, arg |-> PyNone, reply |-> Raised,
       content |-> content]>>
\* if save_intermediates: (output_dir / name).write_text(content)
ESave(name, content) == IF save_intermediates THEN EWrite(name, content) ELSE <<>>

\* the log entries of the effects
LogOf(effects) ==
    [i \in 1..Len(effects) |->
        IF effects[i].ev = "invoke"
        THEN Invoked(effects[i].who, effects[i].arg, effects[i].reply)
        ELSE Wrote(effects[i].who)]

\* the files after the effects: write_text creates the file or replaces it
RECURSIVE FilesAfter(_, _)
FilesAfter(fs, effects) ==
    IF effects = <<>> THEN fs
    ELSE FilesAfter(IF Head(effects).ev = "write"
                    THEN (Head(effects).who :> Head(effects).content) @@ fs
                    ELSE fs,
                    Tail(effects))

\* the return statements `return False, "", output_dir`
ReturnFailure(dir) == [passed |-> PyFalse, html |-> PyStr(<<>>), output_dir |-> dir]
NoResult == [passed |-> PyNone, html |-> PyNone, output_dir |-> ""]

\* the kwargs of the calls
K_spec_json == <<"s", "p", "e", "c", "_", "j", "s", "o", "n">>
K_plan == <<"p", "l", "a", "n">>
K_html == <<"h", "t", "m", "l">>
PlannerArgs(sj) == PyDict(<<Member(K_spec_json, PyStr(sj))>>)
PlanArgs(sj, pj) == PyDict(<<Member(K_spec_json, PyStr(sj)), Member(K_plan, PyStr(pj))>>)
HtmlArgs(h) == PyDict(<<Member(K_html, h)>>)

(***************************************************************************)
(* The inputs the model draws from.                                        *)
(***************************************************************************)

\* the spec file: absent, or a file with this text
NoFile == [exists |-> FALSE, text |-> <<>>]
FileOf(chars) == [exists |-> TRUE, text |-> chars]
SpecFiles ==
    { NoFile,
      \* '{"Concept": "Heat"}'
      FileOf(<<"{", "\"", "C", "o", "n", "c", "e", "p", "t", "\"", ":", " ",
               "\"", "H", "e", "a", "t", "\"", "}">>),
      \* '{}'
      FileOf(<<"{", "}">>),
      \* '[1]', valid JSON that is no object
      FileOf(<<"[", "1", "]">>),
      \* '{"Concept"', no valid JSON
      FileOf(<<"{", "\"", "C", "o", "n", "c", "e", "p", "t", "\"">>) }

\* what planner_chain.invoke may do
PlannerReplies ==
    { Raised,
      \* '{"learning_objectives": ["a"]}'
      Reply(<<"{", "\"", "l", "e", "a", "r", "n", "i", "n", "g", "_", "o",
              "b", "j", "e", "c", "t", "i", "v", "e", "s", "\"", ":", " ",
              "[", "\"", "a", "\"", "]", "}">>),
      \* '```json\n{"key_concepts": []}\n```'
      Reply(<<Backtick, Backtick, Backtick, "j", "s", "o", "n", "\n", "{",
              "\"", "k", "e", "y", "_", "c", "o", "n", "c", "e", "p", "t",
              "s", "\"", ":", " ", "[", "]", "}", "\n", Backtick, Backtick,
              Backtick>>),
      \* '{"learning_objectives": 5}'
      Reply(<<"{", "\"", "l", "e", "a", "r", "n", "i", "n", "g", "_", "o",
              "b", "j", "e", "c", "t", "i", "v", "e", "s", "\"", ":", " ",
              "5", "}">>),
      \* 'no plan'
      Reply(<<"n", "o", " ", "p", "l", "a", "n">>),
      \* ''
      Reply(<<>>) }

\* what the second invocation of planner_chain may do
PlannerRetries ==
    { Raised,
      \* '{"key_concepts": ["a"]}'
      Reply(<<"{", "\"", "k", "e", "y", "_", "c", "o", "n", "c", "e", "p",
              "t", "s", "\"", ":", " ", "[", "\"", "a", "\"", "]", "}">>),
      \* 'no plan'
      Reply(<<"n", "o", " ", "p", "l", "a", "n">>) }

\* what creation_chain.invoke may do
CreatorReplies ==
    { Raised,
      \* '<html><head></head><button>A</button></html>'
      Reply(<<"<", "h", "t", "m", "l", ">", "<", "h", "e", "a", "d", ">",
              "<", "/", "h", "e", "a", "d", ">", "<", "b", "u", "t", "t",
              "o", "n", ">", "A", "<", "/", "b", "u", "t", "t", "o", "n",
              ">", "<", "/", "h", "t", "m", "l", ">">>),
      \* '{"index.html": "<html>A</html>"}'
      Reply(<<"{", "\"", "i", "n", "d", "e", "x", ".", "h", "t", "m", "l",
              "\"", ":", " ", "\"", "<", "h", "t", "m", "l", ">", "A", "<",
              "/", "h", "t", "m", "l", ">", "\"", "}">>),
      \* 'Here: <HTML>A</HTML>'
      Reply(<<"H", "e", "r", "e", ":", " ", "<", "H", "T", "M", "L", ">",
              "A", "<", "/", "H", "T", "M", "L", ">">>),
      \* '{"index.html": 5}'
      Reply(<<"{", "\"", "i", "n", "d", "e", "x", ".", "h", "t", "m", "l",
              "\"", ":", " ", "5", "}">>),
      \* '{"index.html": []}'
      Reply(<<"{", "\"", "i", "n", "d", "e", "x", ".", "h", "t", "m", "l",
              "\"", ":", " ", "[", "]", "}">>) }

\* what bugfix_chain.invoke may do
BugfixReplies ==
    { Raised,
      \* '{"index.html": "<html>B</html>", "explanations": ["e"]}'
      Reply(<<"{", "\"", "i", "n", "d", "e", "x", ".", "h", "t", "m", "l",
              "\"", ":", " ", "\"", "<", "h", "t", "m", "l", ">", "B", "<",
              "/", "h", "t", "m", "l", ">", "\"", ",", " ", "\"", "e", "x",
              "p", "l", "a", "n", "a", "t", "i", "o", "n", "s", "\"", ":",
              " ", "[", "\"", "e", "\"", "]", "}">>),
      \* '{"fixed": false}'
      Reply(<<"{", "\"", "f", "i", "x", "e", "d", "\"", ":", " ", "f", "a",
              "l", "s", "e", "}">>),
      \* 'cannot fix'
      Reply(<<"c", "a", "n", "n", "o", "t", " ", "f", "i", "x">>),
      \* '{"index.html": null}'
      Reply(<<"{", "\"", "i", "n", "d", "e", "x", ".", "h", "t", "m", "l",
              "\"", ":", " ", "n", "u", "l", "l", "}">>),
      \* '{"explanations": 5}'
      Reply(<<"{", "\"", "e", "x", "p", "l", "a", "n", "a", "t", "i", "o",
              "n", "s", "\"", ":", " ", "5", "}">>) }

\* what student_interaction_chain.invoke may do
InteractionReplies ==
    { Raised,
      \* '{"questions": ["q"]}'
      Reply(<<"{", "\"", "q", "u", "e", "s", "t", "i", "o", "n", "s", "\"",
              ":", " ", "[", "\"", "q", "\"", "]", "}">>),
      \* '{"questions": 1}'
      Reply(<<"{", "\"", "q", "u", "e", "s", "t", "i", "o", "n", "s", "\"",
              ":", " ", "1", "}">>),
      \* 'none'
      Reply(<<"n", "o", "n", "e">>),
      \* '{}'
      Reply(<<"{", "}">>) }

\* what review_chain.invoke may do
ReviewReplies ==
    { Raised,
      \* '{"pass": true, "scores": {"a": 5, "b": 3}}'
      Reply(<<"{", "\"", "p", "a", "s", "s", "\"", ":", " ", "t", "r", "u",
              "e", ",", " ", "\"", "s", "c", "o", "r", "e", "s", "\"", ":",
              " ", "{", "\"", "a", "\"", ":", " ", "5", ",", " ", "\"", "b",
              "\"", ":", " ", "3", "}", "}">>),
      \* '{"pass": false, "scores": {"a": 5, "b": 4}}'
      Reply(<<"{", "\"", "p", "a", "s", "s", "\"", ":", " ", "f", "a", "l",
              "s", "e", ",", " ", "\"", "s", "c", "o", "r", "e", "s", "\"",
              ":", " ", "{", "\"", "a", "\"", ":", " ", "5", ",", " ", "\"",
              "b", "\"", ":", " ", "4", "}", "}">>),
      \* '{"pass": true, "scores": {"a": 2}}'
      Reply(<<"{", "\"", "p", "a", "s", "s", "\"", ":", " ", "t", "r", "u",
              "e", ",", " ", "\"", "s", "c", "o", "r", "e", "s", "\"", ":",
              " ", "{", "\"", "a", "\"", ":", " ", "2", "}", "}">>),
      \* '{"scores": {"a": 5}}'
      Reply(<<"{", "\"", "s", "c", "o", "r", "e", "s", "\"", ":", " ", "{",
              "\"", "a", "\"", ":", " ", "5", "}", "}">>),
      \* '{"pass": "yes"}'
      Reply(<<"{", "\"", "p", "a", "s", "s", "\"", ":", " ", "\"", "y", "e",
              "s", "\"", "}">>),
      \* '{"pass": true, "scores": 5}'
      Reply(<<"{", "\"", "p", "a", "s", "s", "\"", ":", " ", "t", "r", "u",
              "e", ",", " ", "\"", "s", "c", "o", "r", "e", "s", "\"", ":",
              " ", "5", "}">>),
      \* '{"pass": true, "scores": {"a": "5"}}'
      Reply(<<"{", "\"", "p", "a", "s", "s", "\"", ":", " ", "t", "r", "u",
              "e", ",", " ", "\"", "s", "c", "o", "r", "e", "s", "\"", ":",
              " ", "{", "\"", "a", "\"", ":", " ", "\"", "5", "\"", "}", "}">>),
      \* '{"pass": false, "required_changes": 1}'
      Reply(<<"{", "\"", "p", "a", "s", "s", "\"", ":", " ", "f", "a", "l",
              "s", "e", ",", " ", "\"", "r", "e", "q", "u", "i", "r", "e",
              "d", "_", "c", "h", "a", "n", "g", "e", "s", "\"", ":", " ",
              "1", "}">>),
      \* 'looks good'
      Reply(<<"l", "o", "o", "k", "s", " ", "g", "o", "o", "d">>) }

(***************************************************************************)
(* The stages.  A stage operator gives, for the responses of its chain,    *)
(* where the run goes next, the locals the stage assigns and its effects.  *)
(***************************************************************************)

K_learning_objectives ==
    <<"l", "e", "a", "r", "n", "i", "n", "g", "_", "o", "b", "j", "e", "c",
      "t", "i", "v", "e", "s">>
K_variables_to_simulate ==
    <<"v", "a", "r", "i", "a", "b", "l", "e", "s", "_", "t", "o", "_", "s",
      "i", "m", "u", "l", "a", "t", "e">>
K_explanations == <<"e", "x", "p", "l", "a", "n", "a", "t", "i", "o", "n", "s">>
K_questions == <<"q", "u", "e", "s", "t", "i", "o", "n", "s">>
K_scores == <<"s", "c", "o", "r", "e", "s">>
K_pass == <<"p", "a", "s", "s">>
K_required_changes ==
    <<"r", "e", "q", "u", "i", "r", "e", "d", "_", "c", "h", "a", "n", "g",
      "e", "s">>

TypeError == [kind |-> "TypeError", snippet |-> <<>>]
AttributeError == [kind |-> "AttributeError", snippet |-> <<>>]

\* lines 371-384, `except Exception as e_retry`: the error is saved and the
\* blueprint is the default one of the spec
PlannerFallback(effects, e_retry) ==
    LET Saved(fallback) ==
            [next |-> "creator",
             plan_data |-> fallback,
             effects |-> effects
                \o ESave("1_planner_final_error.txt", ErrorFile(e_retry))
                \o ESave("1_planner_blueprint_fallback.json",
                         TextFile(json_dumps(fallback)))]
    IN  Saved(generate_default_blueprint_from_spec(spec))

\* a retry whose failure ends the run instead of falling back
PlannerRetryAbort(effects, e_parse, retry) ==
    LET Retried(before, raw_retry, parsed) ==
            IF retry.raised \/ ~parsed.ok
            THEN [next |-> "returned", plan_data |-> PyNone,
                  effects |-> IF retry.raised THEN before ELSE before \o raw_retry]
            ELSE [next |-> "creator",
                  plan_data |-> parsed.v,
                  effects |-> before \o raw_retry
                    \o ESave("1_planner_blueprint.json",
                             TextFile(json_dumps(parsed.v)))]
    IN  Retried(effects
                    \o ESave("1_planner_parse_error.txt", ErrorFile(e_parse))
                    \o EInvoke("planner_chain", PlannerArgs(spec_json), retry),
                ESave("1_planner_retry_raw_response.txt",
                      TextFile(str_of(retry.content))),
                safe_json_parse(retry.content))

\* lines 356-370, `except Exception as e_parse`: the error is saved and the
\* planner is invoked again with the same kwargs
PlannerRetry(effects, e_parse, retry) ==
    LET Retried(before, raw_retry, parsed) ==
            IF retry.raised \/ ~parsed.ok
            THEN PlannerFallback(IF retry.raised THEN before ELSE before \o raw_retry,
                                 IF retry.raised THEN ProviderError ELSE parsed.err)
            ELSE [next |-> "creator",
                  plan_data |-> parsed.v,
                  effects |-> before \o raw_retry
                    \o ESave("1_planner_blueprint.json",
                             TextFile(json_dumps(parsed.v)))]
    IN  Retried(effects
                    \o ESave("1_planner_parse_error.txt", ErrorFile(e_parse))
                    \o EInvoke("planner_chain", PlannerArgs(spec_json), retry),
                ESave("1_planner_retry_raw_response.txt",
                      TextFile(str_of(retry.content))),
                safe_json_parse(retry.content))

\* lines 336-391, the planner node; first and retry are what the first and
\* the second invocation of planner_chain do
PlannerStage(first, retry) ==
    LET \* lines 354-355: len() of the two fields printed
        Printed(plan) ==
            /\ HasLen(Get(plan, K_learning_objectives, PyList(<<>>)))
            /\ HasLen(Get(plan, K_variables_to_simulate, PyList(<<>>)))
        Parsed(call, raw, parsed, blueprint) ==
            IF first.raised
            THEN [next |-> "returned", plan_data |-> PyNone, effects |-> call]
            ELSE IF ~parsed.ok \/ ~Printed(parsed.v)
            THEN PlannerRetry(IF parsed.ok THEN call \o raw \o blueprint
                              ELSE call \o raw,
                              IF parsed.ok THEN TypeError ELSE parsed.err,
                              retry)
            ELSE [next |-> "creator",
                  plan_data |-> parsed.v,
                  effects |-> call \o raw \o blueprint]
        Called(parsed) ==
            Parsed(EInvoke("planner_chain", PlannerArgs(spec_json), first),
                   ESave("1_planner_raw_response.txt", TextFile(str_of(first.content))),
                   parsed,
                   ESave("1_planner_blueprint.json", TextFile(json_dumps(parsed.v))))
    IN  Called(safe_json_parse(first.content))

\* lines 422-426, `except Exception as e` of the creator node
CreatorFailed(effects, e) ==
    [next |-> "returned",
     html |-> PyNone,
     effects |-> effects \o ESave("2_creator_error.txt", ErrorFile(e))]

\* lines 395-426, the creator node
CreatorStage(reply) ==
    LET Extracted(call, raw, extracted) ==
            IF reply.raised THEN CreatorFailed(call, ProviderError)
            \* write_text of a value that is no str
            ELSE IF save_intermediates /\ extracted.t # "str"
            THEN CreatorFailed(call \o raw, TypeError)
            ELSE IF ~check_minimum_requirements(extracted).ok
            THEN CreatorFailed(call \o raw
                                \o ESave("2_creator_output.html", TextFile(extracted.s)),
                               TypeError)
            ELSE [next |-> "bugfix",
                  html |-> extracted,
                  effects |-> call \o raw
                    \o ESave("2_creator_output.html", TextFile(extracted.s))]
    IN  Extracted(EInvoke("creation_chain", PlanArgs(spec_json, plan_json), reply),
                  ESave("2_creator_raw_response.txt", TextFile(str_of(reply.content))),
                  extract_html_from_response(reply.content))

\* lines 443-446: len(explanations) and explanations[:3] of a true value
ExplanationsPrinted(explanations) ==
    ~Truthy(explanations) \/ explanations.t \in {"str", "list"}

\* an inner try that reads bugfix_data["index.html"] and fails without it
BugfixHtmlRequired(content, before) ==
    LET Fixed(bugfix_data) ==
            IF /\ bugfix_data.ok
               /\ HasKey(bugfix_data.v, K_index_html)
               /\ ExplanationsPrinted(Get(bugfix_data.v, K_explanations, PyList(<<>>)))
            THEN Lookup(bugfix_data.v, K_index_html)
            ELSE extract_html_from_response(content)
    IN  Fixed(safe_json_parse(content))

\* lines 438-449: the html after the inner try of the bugfix node
BugfixHtml(content, before) ==
    LET Fixed(bugfix_data) ==
            IF /\ bugfix_data.ok
               /\ ExplanationsPrinted(Get(bugfix_data.v, K_explanations, PyList(<<>>)))
            THEN Get(bugfix_data.v, K_index_html, before)
            ELSE extract_html_from_response(content)
    IN  Fixed(safe_json_parse(content))

\* a bugfix node that invokes its chain a second time
BugfixStageAgain(reply) ==
    [html |-> html,
     effects |-> EInvoke("bugfix_chain", HtmlArgs(html), reply)
        \o EInvoke("bugfix_chain", HtmlArgs(html), reply)]

\* lines 430-462, the bugfix node
BugfixStage(reply) ==
    LET Enforced(call, raw, fixed, enforced) ==
            IF reply.raised
            THEN [html |-> html,
                  effects |-> call
                    \o ESave("3_bugfix_error.txt", ErrorFile(ProviderError))]
            ELSE IF ~enforced.ok
            THEN [html |-> fixed,
                  effects |-> call \o raw
                    \o ESave("3_bugfix_error.txt", ErrorFile(enforced.err))]
            ELSE [html |-> enforced.v,
                  effects |-> call \o raw
                    \o ESave("3_bugfix_output.html", TextFile(enforced.v.s))]
        Fixed(fixed) ==
            Enforced(EInvoke("bugfix_chain", HtmlArgs(html), reply),
                     ESave("3_bugfix_raw_response.txt", TextFile(str_of(reply.content))),
                     fixed,
                     enforce_minimum_requirements(fixed))
    IN  Fixed(BugfixHtml(reply.content, html))

\* a student interaction node whose failures are saved nowhere
InteractionStageSilent(reply) ==
    LET Parsed(call, interaction_data, saved) ==
            IF reply.raised \/ ~interaction_data.ok THEN call
            ELSE call \o saved
        Called(interaction_data) ==
            Parsed(EInvoke("student_interaction_chain",
                           PlanArgs(spec_json, plan_json), reply),
                   interaction_data,
                   ESave("4_student_interaction.json",
                         TextFile(json_dumps(interaction_data.v))))
    IN  Called(safe_json_parse(reply.content))

\* lines 466-484, the student interaction node
InteractionStage(reply) ==
    LET Parsed(call, interaction_data, saved) ==
            IF reply.raised
            THEN call \o ESave("4_interaction_error.txt", ErrorFile(ProviderError))
            ELSE IF ~interaction_data.ok
            THEN call \o ESave("4_interaction_error.txt",
                               ErrorFile(interaction_data.err))
            \* line 479: len() of the questions
            ELSE IF ~HasLen(Get(interaction_data.v, K_questions, PyList(<<>>)))
            THEN call \o saved \o ESave("4_interaction_error.txt", ErrorFile(TypeError))
            ELSE call \o saved
        Called(interaction_data) ==
            Parsed(EInvoke("student_interaction_chain",
                           PlanArgs(spec_json, plan_json), reply),
                   interaction_data,
                   ESave("4_student_interaction.json",
                         TextFile(json_dumps(interaction_data.v))))
    IN  Called(safe_json_parse(reply.content))

\* lines 497-513: what raises after the review is parsed and saved, if
\* anything: scores.items() of a value that is no dict, score >= 3 of a value
\* that is no number, required_changes[:5] of a true value that is no str
\* and no list
ReviewReport(review_data) ==
    LET Reported(scores, pass, required_changes) ==
            IF scores.t # "dict" THEN AttributeError
            ELSE IF \E i \in 1..Len(scores.kids) :
                        scores.kids[i].v.t \notin {"int", "float", "bool"}
            THEN TypeError
            ELSE IF /\ ~Truthy(pass)
                    /\ Truthy(required_changes)
                    /\ required_changes.t \notin {"str", "list"}
            THEN TypeError
            ELSE NoError
    IN  Reported(Get(review_data, K_scores, PyDict(<<>>)),
                 Get(review_data, K_pass, PyFalse),
                 Get(review_data, K_required_changes, PyList(<<>>)))

\* lines 488-519, the review node
ReviewStage(reply) ==
    LET Parsed(call, review_data, saved, report) ==
            IF reply.raised
            THEN [passed |-> PyFalse,
                  effects |-> call
                    \o ESave("6_review_error.txt", ErrorFile(ProviderError))]
            ELSE IF ~review_data.ok
            THEN [passed |-> PyFalse,
                  effects |-> call
                    \o ESave("6_review_error.txt", ErrorFile(review_data.err))]
            ELSE IF report # NoError
            THEN [passed |-> PyFalse,
                  effects |-> call \o saved
                    \o ESave("6_review_error.txt", ErrorFile(report))]
            ELSE [passed |-> Get(review_data.v, K_pass, PyFalse),
                  effects |-> call \o saved]
        Called(review_data) ==
            Parsed(EInvoke("review_chain", HtmlArgs(html), reply),
                   review_data,
                   ESave("6_review_results.json", TextFile(json_dumps(review_data.v))),
                   ReviewReport(review_data.v))
    IN  Called(safe_json_parse(reply.content))

(***************************************************************************)
(* The steps of generate_simulation_with_checks.                           *)
(***************************************************************************)

\* no response given to a helper, and no helper applied
NoSample ==
    [fenced |-> FALSE, tag |-> <<>>, body |-> <<>>, value |-> PyNone,
     listed |-> FALSE, parts |-> << >>]
NoExtract == [fn |-> "", out |-> Return(PyNone)]

\* the SimulationState of a run that has not built its initial state
NoState ==
    [spec_json |-> <<>>, concept_name |-> PyNone, planner_raw_output |-> <<>>,
     planner_blueprint |-> PyDict(<<>>), creator_output |-> <<>>,
     reviewer_output |-> PyDict(<<>>), output_dir |-> "", iteration |-> 0,
     max_iterations |-> 0, approved |-> PyFalse]

Init ==
    /\ pc = "load"
    /\ spec_file \in SpecFiles
    /\ save_intermediates \in BOOLEAN
    /\ chains \in { {ChainNames[i] : i \in 1..Len(ChainNames)},
                    {ChainNames[i] : i \in 1..Len(ChainNames)} \ {"incorporate_feedback_chain"} }
    /\ output_dir = ""
    /\ files = << >>
    /\ log = << >>
    /\ spec = PyNone
    /\ spec_json = << >>
    /\ plan_data = PyNone
    /\ plan_json = << >>
    /\ html = PyNone
    /\ passed = PyNone
    /\ result = NoResult
    /\ max_iterations = 0
    /\ state = NoState
    /\ clock = 0
    /\ run_dirs = << >>
    /\ sample = NoSample
    /\ applied = NoExtract

\* make_timestamped_output_dir(output_root): the directory of the run
make_timestamped_output_dir == "output/YYYY-MM-DD_HH-MM-SS"

\* load_spec(path): json.load of the file; FileNotFoundError, JSONDecodeError
load_spec(file) ==
    LET Loaded(data) ==
            IF ~file.exists THEN Raise("FileNotFoundError", <<>>)
            ELSE IF ~data.ok THEN Raise("JSONDecodeError", <<>>)
            ELSE Return(data.v)
    IN  Loaded(json_loads(file.text))

\* lines 300-314: the output directory is made and the spec is loaded;
\* spec.get raises for a spec that is no dict
LoadSpec ==
    /\ pc = "load"
    /\ output_dir' = make_timestamped_output_dir
    /\ \E loaded \in {load_spec(spec_file)} :
        IF loaded.ok /\ loaded.v.t = "dict"
        THEN /\ spec' = loaded.v
             /\ spec_json' = json_dumps(loaded.v)
             /\ files' = FilesAfter(files, ESave("spec.json", TextFile(spec_json')))
             /\ log' = log \o LogOf(ESave("spec.json", TextFile(spec_json')))
             /\ pc' = "validate"
             /\ UNCHANGED result
        ELSE /\ pc' = "returned"
             /\ result' = ReturnFailure(output_dir')
             /\ UNCHANGED <<spec, spec_json, files, log>>
    /\ UNCHANGED <<spec_file, save_intermediates, chains, plan_data, plan_json,
                   html, passed>>
    /\ UNCHANGED graphVars
    /\ UNCHANGED <<dirVars, extractVars>>

\* lines 317-332: every chain must have an invoke method
ValidateAgents ==
    /\ pc = "validate"
    /\ IF \A i \in 1..Len(ChainNames) : ChainNames[i] \in chains
       THEN pc' = "planner" /\ UNCHANGED result
       ELSE pc' = "returned" /\ result' = ReturnFailure(output_dir)
    /\ UNCHANGED <<spec_file, save_intermediates, chains, output_dir, files, log,
                   spec, spec_json, plan_data, plan_json, html, passed>>
    /\ UNCHANGED graphVars
    /\ UNCHANGED <<dirVars, extractVars>>

\* lines 334-391
Planner ==
    /\ pc = "planner"
    /\ \E first \in PlannerReplies, retry \in PlannerRetries :
        \E stage \in {PlannerStage(first, retry)} :
            /\ pc' = stage.next
            /\ files' = FilesAfter(files, stage.effects)
            /\ log' = log \o LogOf(stage.effects)
            /\ IF stage.next = "returned"
               THEN /\ result' = ReturnFailure(output_dir)
                    /\ UNCHANGED <<plan_data, plan_json>>
               ELSE /\ plan_data' = stage.plan_data
                    /\ plan_json' = json_dumps(stage.plan_data)
                    /\ UNCHANGED result
    /\ UNCHANGED <<spec_file, save_intermediates, chains, output_dir, spec,
                   spec_json, html, passed>>
    /\ UNCHANGED graphVars
    /\ UNCHANGED <<dirVars, extractVars>>

\* lines 393-426
Creator ==
    /\ pc = "creator"
    /\ \E reply \in CreatorReplies :
        \E stage \in {CreatorStage(reply)} :
            /\ pc' = stage.next
            /\ files' = FilesAfter(files, stage.effects)
            /\ log' = log \o LogOf(stage.effects)
            /\ IF stage.next = "returned"
               THEN result' = ReturnFailure(output_dir) /\ UNCHANGED html
               ELSE html' = stage.html /\ UNCHANGED result
    /\ UNCHANGED <<spec_file, save_intermediates, chains, output_dir, spec,
                   spec_json, plan_data, plan_json, passed>>
    /\ UNCHANGED graphVars
    /\ UNCHANGED <<dirVars, extractVars>>

\* lines 428-462
Bugfix ==
    /\ pc = "bugfix"
    /\ \E reply \in BugfixReplies :
        \E stage \in {BugfixStage(reply)} :
            /\ html' = stage.html
            /\ files' = FilesAfter(files, stage.effects)
            /\ log' = log \o LogOf(stage.effects)
    /\ pc' = "interaction"
    /\ UNCHANGED <<spec_file, save_intermediates, chains, output_dir, spec,
                   spec_json, plan_data, plan_json, passed, result>>
    /\ UNCHANGED graphVars
    /\ UNCHANGED <<dirVars, extractVars>>

\* lines 464-484
Interaction ==
    /\ pc = "interaction"
    /\ \E reply \in InteractionReplies :
        \E effects \in {InteractionStage(reply)} :
            /\ files' = FilesAfter(files, effects)
            /\ log' = log \o LogOf(effects)
    /\ pc' = "review"
    /\ UNCHANGED <<spec_file, save_intermediates, chains, output_dir, spec,
                   spec_json, plan_data, plan_json, html, passed, result>>
    /\ UNCHANGED graphVars
    /\ UNCHANGED <<dirVars, extractVars>>

\* lines 486-519
Review ==
    /\ pc = "review"
    /\ \E reply \in ReviewReplies :
        \E stage \in {ReviewStage(reply)} :
            /\ passed' = stage.passed
            /\ files' = FilesAfter(files, stage.effects)
            /\ log' = log \o LogOf(stage.effects)
    /\ pc' = "final"
    /\ UNCHANGED <<spec_file, save_intermediates, chains, output_dir, spec,
                   spec_json, plan_data, plan_json, html, result>>
    /\ UNCHANGED graphVars
    /\ UNCHANGED <<dirVars, extractVars>>

\* lines 521-540: the final output is written and the run returns; the
\* AttributeError of enforce_minimum_requirements is caught by nothing
Finish ==
    /\ pc = "final"
    /\ \E final_html \in {enforce_minimum_requirements(html)} :
        IF final_html.ok
        THEN /\ files' = FilesAfter(files, EWrite("5_final_output.html",
                                                  TextFile(final_html.v.s)))
             /\ log' = log \o LogOf(EWrite("5_final_output.html",
                                           TextFile(final_html.v.s)))
             /\ result' = [passed |-> passed, html |-> final_html.v,
                           output_dir |-> output_dir]
             /\ pc' = "returned"
        ELSE /\ pc' = "raised"
             /\ UNCHANGED <<files, log, result>>
    /\ UNCHANGED <<spec_file, save_intermediates, chains, output_dir, spec,
                   spec_json, plan_data, plan_json, html, passed>>
    /\ UNCHANGED graphVars
    /\ UNCHANGED <<dirVars, extractVars>>

Next ==
    \/ LoadSpec
    \/ ValidateAgents
    \/ Planner
    \/ Creator
    \/ Bugfix
    \/ Interaction
    \/ Review
    \/ Finish

Spec == Init /\ [][Next]_vars

(***************************************************************************)
(* src/src_lang_graph/sim_generator.py: the LangGraph pipeline, one run of *)
(* generate_simulation.  The run shares pc, spec_file, output_dir, files,  *)
(* log, spec, spec_json and result with the pipeline above and leaves the  *)
(* other variables of that pipeline alone.                                 *)
(***************************************************************************)

\* the largest max_iterations a run is started with
MaxIterations == 3

\* the characters \w matches among the characters of the model's texts
WordChars ==
    DOMAIN LowerMap \cup {LowerMap[c] : c \in DOMAIN LowerMap}
        \cup {DigitChar[i] : i \in 1..10} \cup {"_"}

\* re.sub(r'[^\w\s-]', '', name)
RECURSIVE DropSpecial(_)
DropSpecial(name) ==
    IF name = <<>> THEN <<>>
    ELSE (IF Head(name) \in WordChars \cup Whitespace \cup {"-"}
          THEN <<Head(name)>> ELSE <<>>)
            \o DropSpecial(Tail(name))

\* re.sub(r'[\s_]+', '_', name): inRun says that the character before was
\* one of the run being replaced
RECURSIVE JoinRuns(_, _)
JoinRuns(name, inRun) ==
    IF name = <<>> THEN <<>>
    ELSE IF Head(name) \in Whitespace \cup {"_"}
    THEN (IF inRun THEN <<>> ELSE <<"_">>) \o JoinRuns(Tail(name), TRUE)
    ELSE <<Head(name)>> \o JoinRuns(Tail(name), FALSE)

\* sanitize_filename(name)
sanitize_filename(name) ==
    LET Cut(sanitized) ==
            IF Len(sanitized) > 50 THEN Slice(sanitized, 0, 50)
            ELSE IF sanitized = <<>> THEN <<"U", "n", "k", "n", "o", "w", "n">>
            ELSE sanitized
    IN  Cut(stripChars(JoinRuns(DropSpecial(name), FALSE), {"_"}))

\* 'output/YYYY-MM-DD_HH-MM-SS', the directory of a run started at the time
\* the letters stand for
S_output_dir ==
    <<"o", "u", "t", "p", "u", "t", "/", "Y", "Y", "Y", "Y", "-", "M", "M",
      "-", "D", "D", "_", "H", "H", "-", "M", "M", "-", "S", "S">>

\* make_timestamped_output_dir(base_dir, concept_name) of the LangGraph
\* pipeline; concept_name is None or a str
graph_make_timestamped_output_dir(concept_name) ==
    IF Truthy(concept_name)
    THEN S_output_dir \o <<"_">> \o sanitize_filename(concept_name.s)
    ELSE S_output_dir

\* lines 71-74: a text that starts with a fence loses its backticks at both
\* ends and then its first four characters when it starts with json
graph_StripFence(text) ==
    LET StripLabel(inner) ==
            IF startswith(lower(inner), S_json) THEN lstrip(SliceFrom(inner, 4))
            ELSE inner
    IN  IF startswith(text, S_fence)
        THEN StripLabel(strip(stripChars(text, {Backtick})))
        ELSE text

\* safe_json_parse(content) of the LangGraph pipeline: the value json.loads
\* gives for the span found, its JSONDecodeError, or the ValueError for a
\* text with no span
graph_safe_json_parse(content) ==
    LET Loaded(data) ==
            IF data.ok THEN Return(data.v) ELSE Raise("JSONDecodeError", <<>>)
        \* lines 77-86
        Search(text, match, first_brace, last_brace) ==
            IF match.found
            THEN Loaded(json_loads(Slice(text, match.start, match.end)))
            ELSE IF first_brace # -1 /\ last_brace # -1
            THEN Loaded(json_loads(Slice(text, first_brace, last_brace + 1)))
            ELSE Raise("Could not find JSON in response", <<>>)
        Fenced(text) ==
            Search(text, re_search(text), find(text, <<"{">>), rfind(text, <<"}">>))
    IN  Fenced(graph_StripFence(strip(str_of(content))))

\* the kwargs of the calls
K_blueprint == <<"b", "l", "u", "e", "p", "r", "i", "n", "t">>
K_development_plan ==
    <<"d", "e", "v", "e", "l", "o", "p", "m", "e", "n", "t", "_", "p", "l",
      "a", "n">>
CreatorArgs(st) ==
    PyDict(<<Member(K_spec_json, PyStr(st.spec_json)),
             Member(K_blueprint, PyStr(json_dumps(st.planner_blueprint))),
             Member(K_development_plan, PyStr(st.planner_raw_output))>>)
ReviewerArgs(st) ==
    PyDict(<<Member(K_html, PyStr(st.creator_output)),
             Member(K_plan, PyStr(json_dumps(st.planner_blueprint)))>>)

\* planner_node(state, planner_chain) for what the invocation does: whether
\* the node raises, the state it returns and its effects
planner_node(st, reply) ==
    LET \* lines 165-166: len() of the two fields printed
        Printed(plan) ==
            /\ HasLen(Get(plan, K_learning_objectives, PyList(<<>>)))
            /\ HasLen(Get(plan, K_variables_to_simulate, PyList(<<>>)))
        \* lines 171-174, `except Exception as e`
        Failed(effects, e) ==
            [raised |-> TRUE, state |-> st, err |-> e,
             effects |-> effects \o EWrite("1_planner_error.txt", ErrorFile(e))]
        Parsed(call, raw, parsed, blueprint) ==
            IF reply.raised THEN Failed(call, ProviderError)
            ELSE IF ~parsed.ok THEN Failed(call \o raw, parsed.err)
            ELSE IF ~Printed(parsed.v)
            THEN Failed(call \o raw \o blueprint, TypeError)
            ELSE [raised |-> FALSE, err |-> NoError,
                  state |-> [st EXCEPT !.planner_raw_output = str_of(reply.content),
                                       !.planner_blueprint = parsed.v],
                  effects |-> call \o raw \o blueprint]
        Called(parsed) ==
            Parsed(EInvoke("planner_chain", PlannerArgs(st.spec_json), reply),
                   EWrite("1_planner_raw_response.txt",
                          TextFile(str_of(reply.content))),
                   parsed,
                   EWrite("1_planner_blueprint.json",
                          TextFile(json_dumps(parsed.v))))
    IN  Called(graph_safe_json_parse(reply.content))

\* lines 211-216 of creator_node: the DOCTYPE put first when the html has
\* neither spelling of it, and the viewport tag added after the first <head>
EnsureBasics(page) ==
    LET Viewport(text, low) ==
            IF ~Contains(low, S_meta_viewport) /\ Contains(low, S_head)
            THEN replace1(text, S_head,
                          S_head \o <<"\n", " ", " ", " ", " ">> \o S_insert)
            ELSE text
        Doctype(text) == Viewport(text, lower(text))
    IN  IF ~Contains(page, S_DOCTYPE_html) /\ ~Contains(page, S_doctype_html)
        THEN Doctype(S_DOCTYPE_html \o <<"\n">> \o page)
        ELSE Doctype(page)

\* creator_node(state, creator_chain) for what the invocation does
creator_node(st, reply) ==
    LET \* lines 225-228, `except Exception as e`
        Failed(effects, e) ==
            [raised |-> TRUE, state |-> st, err |-> e,
             effects |-> effects \o EWrite("2_creator_error.txt", ErrorFile(e))]
        Ensured(call, raw, ensured) ==
            [raised |-> FALSE, err |-> NoError,
             state |-> [st EXCEPT !.creator_output = ensured],
             effects |-> call \o raw
                \o EWrite("2_creator_output.html", TextFile(ensured))]
        Extracted(call, raw, extracted) ==
            IF reply.raised THEN Failed(call, ProviderError)
            \* line 211, `in` of a value that is no container; line 212, + of
            \* a str and a list or a dict
            ELSE IF extracted.t \notin {"str", "list", "dict"}
            THEN Failed(call \o raw, TypeError)
            ELSE IF extracted.t # "str"
            THEN IF InValue(S_DOCTYPE_html, extracted) \/ InValue(S_doctype_html, extracted)
                 \* line 214, lower() of a list or a dict
                 THEN Failed(call \o raw, AttributeError)
                 ELSE Failed(call \o raw, TypeError)
            ELSE Ensured(call, raw, EnsureBasics(extracted.s))
    IN  Extracted(EInvoke("creator_chain", CreatorArgs(st), reply),
                  EWrite("2_creator_raw_response.txt",
                         TextFile(str_of(reply.content))),
                  extract_html_from_response(reply.content))

\* reviewer_node(state, reviewer_chain) for what the invocation does; the
\* node raises nothing.  Lines 263-280 raise what ReviewReport says lines
\* 497-513 of src/src/sim_generator.py raise (the slice of required_changes
\* is [:3] here).
reviewer_node(st, reply) ==
    LET \* lines 286-289, `except Exception as e`
        Failed(effects, e) ==
            [raised |-> FALSE, err |-> NoError,
             state |-> [st EXCEPT !.approved = PyFalse],
             effects |-> effects \o EWrite("3_reviewer_error.txt", ErrorFile(e))]
        Parsed(call, raw, review_data, saved, report) ==
            IF reply.raised THEN Failed(call, ProviderError)
            ELSE IF ~review_data.ok THEN Failed(call \o raw, review_data.err)
            ELSE IF report # NoError THEN Failed(call \o raw \o saved, report)
            ELSE [raised |-> FALSE, err |-> NoError,
                  state |-> [st EXCEPT !.reviewer_output = review_data.v,
                                       !.approved = Get(review_data.v, K_pass, PyFalse),
                                       !.iteration = st.iteration + 1],
                  effects |-> call \o raw \o saved]
        Called(review_data) ==
            Parsed(EInvoke("reviewer_chain", ReviewerArgs(st), reply),
                   EWrite("3_reviewer_raw_response.txt",
                          TextFile(str_of(reply.content))),
                   review_data,
                   EWrite("3_reviewer_results.json",
                          TextFile(json_dumps(review_data.v))),
                   ReviewReport(review_data.v))
    IN  Called(graph_safe_json_parse(reply.content))

\* should_continue(state) with a last branch that goes back to the creator
should_continue_regenerating(st) ==
    IF Truthy(st.approved) THEN "end"
    ELSE IF st.iteration >= st.max_iterations THEN "end"
    ELSE "continue"

\* should_continue(state)
should_continue(st) ==
    IF Truthy(st.approved) THEN "end"
    ELSE IF st.iteration >= st.max_iterations THEN "end"
    ELSE "end"

\* build_graph, lines 331-338: where the conditional edge after the reviewer
\* goes for what should_continue returns: to END, or to the creator
ConditionalEdges == [end |-> "finish", continue |-> "creator_node"]

\* lines 416-422: the summary of the run
K_concept == <<"c", "o", "n", "c", "e", "p", "t">>
K_approved == <<"a", "p", "p", "r", "o", "v", "e", "d">>
K_iterations == <<"i", "t", "e", "r", "a", "t", "i", "o", "n", "s">>
K_timestamp == <<"t", "i", "m", "e", "s", "t", "a", "m", "p">>
K_output_dir == <<"o", "u", "t", "p", "u", "t", "_", "d", "i", "r">>
S_isoformat ==
    <<"Y", "Y", "Y", "Y", "-", "M", "M", "-", "D", "D", "T", "H", "H", ":",
      "M", "M", ":", "S", "S">>
Summary(final_state) ==
    PyDict(<<Member(K_concept, final_state.concept_name),
             Member(K_approved, final_state.approved),
             Member(K_iterations, PyInt(final_state.iteration)),
             Member(K_timestamp, PyStr(S_isoformat)),
             Member(K_output_dir, PyStr(final_state.output_dir))>>)

InitGraph ==
    /\ pc = "generate_simulation"
    /\ spec_file \in SpecFiles
    /\ max_iterations \in 0..MaxIterations
    /\ state = NoState
    /\ output_dir = <<>>
    /\ files = << >>
    /\ log = << >>
    /\ spec = PyNone
    /\ spec_json = << >>
    /\ result = NoResult
    /\ save_intermediates = TRUE
    /\ chains = {"planner_chain", "creator_chain", "reviewer_chain"}
    /\ plan_data = PyNone
    /\ plan_json = << >>
    /\ html = PyNone
    /\ passed = PyNone
    /\ clock = 0
    /\ run_dirs = << >>
    /\ sample = NoSample
    /\ applied = NoExtract

\* lines 364-400: the spec is loaded, the output directory made, the spec
\* saved and the initial state built; spec.get raises for a spec that is no
\* dict
GenerateSimulation ==
    /\ pc = "generate_simulation"
    /\ \E loaded \in {load_spec(spec_file)} :
        IF loaded.ok /\ loaded.v.t = "dict"
        THEN \E concept_name \in {Get(loaded.v, K_Concept,
                                      PyStr(<<"U", "n", "k", "n", "o", "w", "n", " ",
                                              "C", "o", "n", "c", "e", "p", "t">>))} :
                /\ spec' = loaded.v
                /\ spec_json' = json_dumps(loaded.v)
                /\ output_dir' = graph_make_timestamped_output_dir(concept_name)
                /\ files' = FilesAfter(files, EWrite("0_spec.json", TextFile(spec_json')))
                /\ log' = log \o LogOf(EWrite("0_spec.json", TextFile(spec_json')))
                /\ state' = [spec_json |-> spec_json',
                             concept_name |-> concept_name,
                             planner_raw_output |-> <<>>,
                             planner_blueprint |-> PyDict(<<>>),
                             creator_output |-> <<>>,
                             reviewer_output |-> PyDict(<<>>),
                             output_dir |-> output_dir',
                             iteration |-> 0,
                             max_iterations |-> max_iterations,
                             approved |-> PyFalse]
                /\ pc' = "planner_node"
                /\ UNCHANGED result
        ELSE /\ pc' = "returned"
             /\ output_dir' = graph_make_timestamped_output_dir(PyNone)
             /\ result' = ReturnFailure(output_dir')
             /\ UNCHANGED <<spec, spec_json, files, log, state>>
    /\ UNCHANGED <<spec_file, max_iterations>>
    /\ UNCHANGED sequentialVars
    /\ UNCHANGED <<dirVars, extractVars>>

\* A node of the graph run by graph.invoke, line 407.  When the node raises,
\* graph.invoke raises: lines 436-439 write error.txt and return.
RunNode(node, next) ==
    IF node.raised
    THEN /\ files' = FilesAfter(files, node.effects
                                    \o EWrite("error.txt", ErrorFile(node.err)))
         /\ log' = log \o LogOf(node.effects
                                    \o EWrite("error.txt", ErrorFile(node.err)))
         /\ result' = ReturnFailure(output_dir)
         /\ pc' = "returned"
         /\ UNCHANGED state
    ELSE /\ files' = FilesAfter(files, node.effects)
         /\ log' = log \o LogOf(node.effects)
         /\ state' = node.state
         /\ pc' = next
         /\ UNCHANGED result

\* the entry point of the graph
PlannerNode ==
    /\ pc = "planner_node"
    /\ \E reply \in PlannerReplies :
        \E node \in {planner_node(state, reply)} : RunNode(node, "creator_node")
    /\ UNCHANGED <<spec_file, max_iterations, output_dir, spec, spec_json>>
    /\ UNCHANGED sequentialVars
    /\ UNCHANGED <<dirVars, extractVars>>

\* the edge planner -> creator
CreatorNode ==
    /\ pc = "creator_node"
    /\ \E reply \in CreatorReplies :
        \E node \in {creator_node(state, reply)} : RunNode(node, "reviewer_node")
    /\ UNCHANGED <<spec_file, max_iterations, output_dir, spec, spec_json>>
    /\ UNCHANGED sequentialVars
    /\ UNCHANGED <<dirVars, extractVars>>

\* the edge creator -> reviewer
ReviewerNode ==
    /\ pc = "reviewer_node"
    /\ \E reply \in ReviewReplies :
        \E node \in {reviewer_node(state, reply)} : RunNode(node, "should_continue")
    /\ UNCHANGED <<spec_file, max_iterations, output_dir, spec, spec_json>>
    /\ UNCHANGED sequentialVars
    /\ UNCHANGED <<dirVars, extractVars>>

\* the conditional edge after the reviewer
ShouldContinue ==
    /\ pc = "should_continue"
    /\ pc' = ConditionalEdges[should_continue(state)]
    /\ UNCHANGED <<spec_file, max_iterations, state, output_dir, files, log,
                   spec, spec_json, result>>
    /\ UNCHANGED sequentialVars
    /\ UNCHANGED <<dirVars, extractVars>>

\* lines 409-434: graph.invoke has returned the final state; the final
\* output and the summary are written and the run returns
GraphFinish ==
    /\ pc = "finish"
    /\ \E written \in {EWrite("4_final_output.html", TextFile(state.creator_output))
                        \o EWrite("4_summary.json",
                                  TextFile(json_dumps(Summary(state))))} :
        /\ files' = FilesAfter(files, written)
        /\ log' = log \o LogOf(written)
    /\ result' = [passed |-> state.approved, html |-> PyStr(state.creator_output),
                  output_dir |-> output_dir]
    /\ pc' = "returned"
    /\ UNCHANGED <<spec_file, max_iterations, state, output_dir, spec, spec_json>>
    /\ UNCHANGED sequentialVars
    /\ UNCHANGED <<dirVars, extractVars>>

NextGraph ==
    \/ GenerateSimulation
    \/ PlannerNode
    \/ CreatorNode
    \/ ReviewerNode
    \/ ShouldContinue
    \/ GraphFinish

SpecGraph == InitGraph /\ [][NextGraph]_vars

(***************************************************************************)
(* make_timestamped_output_dir of both pipelines, for several runs with    *)
(* the same output root.  The clock counts the seconds of one minute; a    *)
(* run may start in the second another run started in.                     *)
(***************************************************************************)

\* the runs that may start
MaxRuns == 3

\* the last second of the clock
MaxClock == 3

\* the concept names of the specs of the runs of the LangGraph pipeline
ConceptNames ==
    { PyStr(<<"H", "e", "a", "t">>), PyStr(<<"L", "i", "g", "h", "t">>) }

\* now.strftime("%Y-%m-%d_%H-%M-%S") for now in the second of the clock; the
\* letters stand for the date, the hour and the minute
strftime(now) ==
    <<"Y", "Y", "Y", "Y", "-", "M", "M", "-", "D", "D", "_", "H", "H", "-",
      "M", "M", "-">>
        \o <<DigitChar[((now \div 10) % 10) + 1], DigitChar[(now % 10) + 1]>>

\* make_timestamped_output_dir(base_dir) of src/src/sim_generator.py at the
\* second now, for base_dir "output"; mkdir(exist_ok=True) takes a
\* directory that exists as it is
make_timestamped_output_dir_at(now) ==
    <<"o", "u", "t", "p", "u", "t", "/">> \o strftime(now)

\* make_timestamped_output_dir(base_dir, concept_name) of the LangGraph
\* pipeline at the second now
graph_make_timestamped_output_dir_at(now, concept_name) ==
    IF Truthy(concept_name)
    THEN make_timestamped_output_dir_at(now) \o <<"_">>
            \o sanitize_filename(concept_name.s)
    ELSE make_timestamped_output_dir_at(now)

InitDirs ==
    /\ clock = 0
    /\ run_dirs = << >>
    /\ pc = "runs"
    /\ spec_file = NoFile
    /\ save_intermediates = TRUE
    /\ chains = {}
    /\ output_dir = ""
    /\ files = << >>
    /\ log = << >>
    /\ spec = PyNone
    /\ spec_json = << >>
    /\ plan_data = PyNone
    /\ plan_json = << >>
    /\ html = PyNone
    /\ passed = PyNone
    /\ result = NoResult
    /\ max_iterations = 0
    /\ state = NoState
    /\ sample = NoSample
    /\ applied = NoExtract

\* a second passes
Tick ==
    /\ clock < MaxClock
    /\ clock' = clock + 1
    /\ UNCHANGED run_dirs
    /\ UNCHANGED <<pc, spec_file, output_dir, files, log, spec, spec_json, result>>
    /\ UNCHANGED <<sequentialVars, graphVars, extractVars>>

\* src/src/sim_generator.py line 300: a run of generate_simulation_with_checks
\* makes its output directory
StartRun ==
    /\ \E run \in (1..MaxRuns) \ DOMAIN run_dirs :
            run_dirs' = (run :> make_timestamped_output_dir_at(clock)) @@ run_dirs
    /\ UNCHANGED clock
    /\ UNCHANGED <<pc, spec_file, output_dir, files, log, spec, spec_json, result>>
    /\ UNCHANGED <<sequentialVars, graphVars, extractVars>>

\* src/src_lang_graph/sim_generator.py lines 373 and 377: a run of
\* generate_simulation makes its output directory, without a concept name
\* when its spec did not load
StartGraphRun ==
    /\ \E run \in (1..MaxRuns) \ DOMAIN run_dirs :
        \E concept_name \in ConceptNames \cup {PyNone} :
            run_dirs' = (run :> graph_make_timestamped_output_dir_at(clock, concept_name))
                            @@ run_dirs
    /\ UNCHANGED clock
    /\ UNCHANGED <<pc, spec_file, output_dir, files, log, spec, spec_json, result>>
    /\ UNCHANGED <<sequentialVars, graphVars, extractVars>>

NextDirs ==
    \/ Tick
    \/ StartRun
    \/ StartGraphRun

SpecDirs == InitDirs /\ [][NextDirs]_vars

(***************************************************************************)
(* The extraction helpers applied on their own: safe_json_parse and        *)
(* extract_html_from_response of src/src/sim_generator.py and              *)
(* safe_json_parse of src/src_lang_graph/sim_generator.py, each given the  *)
(* content of one response.                                                *)
(***************************************************************************)

\* JSON objects to serialize
JsonObjects ==
    { \* {"a": 1}
      PyDict(<<Member(<<"a">>, PyInt(1))>>),
      \* {"a": {"b": 1}}
      PyDict(<<Member(<<"a">>,
             PyDict(<<Member(<<"b">>, PyInt(1))>>))>>),
      \* {"a": {"b": 1}, "c": {"d": "x"}}
      PyDict(<<Member(<<"a">>,
             PyDict(<<Member(<<"b">>, PyInt(1))>>)),
               Member(<<"c">>,
             PyDict(<<Member(<<"d">>, PyStr(<<"x">>))>>))>>),
      \* {"a": {"b": {"c": 1}}}
      PyDict(<<Member(<<"a">>,
             PyDict(<<Member(<<"b">>,
                    PyDict(<<Member(<<"c">>, PyInt(1))>>))>>))>>),
      \* {"a": "}"}
      PyDict(<<Member(<<"a">>, PyStr(<<"}">>))>>),
      \* {"a": "{"}
      PyDict(<<Member(<<"a">>, PyStr(<<"{">>))>>),
      \* {"a": "{}"}
      PyDict(<<Member(<<"a">>, PyStr(<<"{", "}">>))>>),
      \* {}
      PyDict(<< >>),
      \* {"index.html": "<html>A</html>"}
      PyDict(<<Member(K_index_html,
             PyStr(<<"<", "h", "t", "m", "l", ">", "A", "<", "/", "h", "t",
                     "m", "l", ">">>))>>),
      \* {"index.html": "<html><style>p{}</style></html>"}
      PyDict(<<Member(K_index_html,
             PyStr(<<"<", "h", "t", "m", "l", ">", "<", "s", "t", "y", "l",
                     "e", ">", "p", "{", "}", "<", "/", "s", "t", "y", "l",
                     "e", ">", "<", "/", "h", "t", "m", "l", ">">>))>>),
      \* {"index.html": "<html>{{}}</html>"}
      PyDict(<<Member(K_index_html,
             PyStr(<<"<", "h", "t", "m", "l", ">", "{", "{", "}", "}", "<",
                     "/", "h", "t", "m", "l", ">">>))>>),
      \* {"index.html": "<html>}</html>"}
      PyDict(<<Member(K_index_html,
             PyStr(<<"<", "h", "t", "m", "l", ">", "}", "<", "/", "h", "t",
                     "m", "l", ">">>))>>) }

\* responses that are no serialized object
Texts ==
    { \* '<html>A</html>'
      <<"<", "h", "t", "m", "l", ">", "A", "<", "/", "h", "t", "m", "l", ">">>,
      \* '<html>A</html>Thanks!'
      <<"<", "h", "t", "m", "l", ">", "A", "<", "/", "h", "t", "m", "l",
        ">", "T", "h", "a", "n", "k", "s", "!">>,
      \* '<!DOCTYPE html><html>A</html>'
      <<"<", "!", "D", "O", "C", "T", "Y", "P", "E", " ", "h", "t", "m",
        "l", ">", "<", "h", "t", "m", "l", ">", "A", "<", "/", "h", "t",
        "m", "l", ">">>,
      \* '<!doctype html><html>A</html>\nDone'
      <<"<", "!", "d", "o", "c", "t", "y", "p", "e", " ", "h", "t", "m",
        "l", ">", "<", "h", "t", "m", "l", ">", "A", "<", "/", "h", "t",
        "m", "l", ">", "\n", "D", "o", "n", "e">>,
      \* 'See <html>A</html> bye'
      <<"S", "e", "e", " ", "<", "h", "t", "m", "l", ">", "A", "<", "/",
        "h", "t", "m", "l", ">", " ", "b", "y", "e">>,
      \* 'See <HTML>A'
      <<"S", "e", "e", " ", "<", "H", "T", "M", "L", ">", "A">>,
      \* 'x <html> <!doctype html> y </html>'
      <<"x", " ", "<", "h", "t", "m", "l", ">", " ", "<", "!", "d", "o",
        "c", "t", "y", "p", "e", " ", "h", "t", "m", "l", ">", " ", "y",
        " ", "<", "/", "h", "t", "m", "l", ">">>,
      \* 'x <!doctype html> <html> y </html> z'
      <<"x", " ", "<", "!", "d", "o", "c", "t", "y", "p", "e", " ", "h",
        "t", "m", "l", ">", " ", "<", "h", "t", "m", "l", ">", " ", "y",
        " ", "<", "/", "h", "t", "m", "l", ">", " ", "z">>,
      \* '{ <style>p{}</style> }'
      <<"{", " ", "<", "s", "t", "y", "l", "e", ">", "p", "{", "}", "<",
        "/", "s", "t", "y", "l", "e", ">", " ", "}">>,
      \* '{ <HTML> }'
      <<"{", " ", "<", "H", "T", "M", "L", ">", " ", "}">>,
      \* '{ <!Doctype html> }'
      <<"{", " ", "<", "!", "D", "o", "c", "t", "y", "p", "e", " ", "h",
        "t", "m", "l", ">", " ", "}">>,
      \* '{ oops }'
      <<"{", " ", "o", "o", "p", "s", " ", "}">>,
      \* '{"a": 1,}'
      <<"{", "\"", "a", "\"", ":", " ", "1", ",", "}">>,
      \* 'no json here'
      <<"n", "o", " ", "j", "s", "o", "n", " ", "h", "e", "r", "e">>,
      \* ''
      <<>>,
      \* '  \n '
      <<" ", " ", "\n", " ">>,
      \* '} {'
      <<"}", " ", "{">>,
      \* 'only { here'
      <<"o", "n", "l", "y", " ", "{", " ", "h", "e", "r", "e">>,
      \* 'a</html> <html>B'
      <<"a", "<", "/", "h", "t", "m", "l", ">", " ", "<", "h", "t", "m",
        "l", ">", "B">>,
      \* '</HTML>x<!doctype html>'
      <<"<", "/", "H", "T", "M", "L", ">", "x", "<", "!", "d", "o", "c",
        "t", "y", "p", "e", " ", "h", "t", "m", "l", ">">> }

\* the character c, n times
Repeat(c, n) == [i \in 1..n |-> c]

\* responses longer than the text an error message quotes, with a newline in
\* the part it quotes: one with braces around words and one with no braces
LongTexts ==
    { <<"{", "\n">> \o Repeat("x", SnippetLen) \o <<"}">>,
      <<"a", "\n">> \o Repeat("x", SnippetLen) }

\* contents that are a list of parts
ListContents ==
    { \* []
      << >>,
      \* [{"type": "text", "text": "  "}, "\n"]
      <<Member(<<>>, PyDict(<<Member(<<"t", "y", "p", "e">>, PyStr(K_text)),
                             Member(K_text, PyStr(<<" ", " ">>))>>)),
        Member(<<>>, PyStr(<<"\n">>))>>,
      \* [{"type": "text", "text": "{\"a\":"}, " 1}"]
      <<Member(<<>>, PyDict(<<Member(<<"t", "y", "p", "e">>, PyStr(K_text)),
                             Member(K_text, PyStr(<<"{", "\"", "a", "\"", ":">>))>>)),
        Member(<<>>, PyStr(<<" ", "1", "}">>))>>,
      \* [{"type": "text", "text": ""}, 1]
      <<Member(<<>>, PyDict(<<Member(<<"t", "y", "p", "e">>, PyStr(K_text)),
                             Member(K_text, PyStr(<<>>))>>)),
        Member(<<>>, PyInt(1))>> }

\* fenced responses that are no serialized object, <<tag, content>>
Fences ==
    { \* no tag, the content starts with JSON
      <<<<>>,
        <<"J", "S", "O", "N", " ", "i", "s", " ", "g", "r", "e", "a", "t">>>>,
      \* no tag, the content starts with html
      <<<<>>,
        <<"h", "t", "m", "l", " ", "r", "o", "c", "k", "s">>>>,
      \* no tag
      <<<<>>,
        <<"p", "l", "a", "i", "n", " ", "w", "o", "r", "d", "s">>>>,
      \* a tag that starts with json
      <<<<"j", "s", "o", "n", "l">>,
        <<"{", "\"", "a", "\"", ":", " ", "1", "}">>>>,
      \* a tag that starts with html
      <<<<"h", "t", "m", "l", "x">>,
        <<"w", "o", "r", "d", "s">>>>,
      \* another tag
      <<<<"p", "y", "t", "h", "o", "n">>,
        <<"p", "r", "i", "n", "t", "(", "1", ")">>>>,
      \* the tag html
      <<<<"h", "t", "m", "l">>,
        <<"<", "p", ">", "h", "i", "<", "/", "p", ">">>>>,
      \* the tag HTML
      <<<<"H", "T", "M", "L">>,
        <<"<", "h", "t", "m", "l", ">", "A", "<", "/", "h", "t", "m", "l",
          ">">>>>,
      \* the tag json, backticks at the ends of the content
      <<<<"j", "s", "o", "n">>,
        <<Backtick, "a", Backtick, " ", "i", "s", " ", Backtick, "b",
          Backtick>>>>,
      \* the tag JSON
      <<<<"J", "S", "O", "N">>,
        <<"{", "\"", "a", "\"", ":", " ", "1", "}">>>> }

\* the responses given to the helpers: every object serialized as line 307
\* serializes the spec, plain and inside a json fence, the other texts, and
\* the contents that are a list; value is the object a body serializes, None
\* for a body that is none; listed says that the content is the list parts,
\* whose joined parts are the body
Samples ==
    { [fenced |-> FALSE, tag |-> <<>>, body |-> json_dumps(X), value |-> X,
       listed |-> FALSE, parts |-> << >>] : X \in JsonObjects }
    \cup { [fenced |-> TRUE, tag |-> S_json, body |-> json_dumps(X), value |-> X,
             listed |-> FALSE, parts |-> << >>] : X \in JsonObjects }
    \cup { [fenced |-> FALSE, tag |-> <<>>, body |-> t, value |-> PyNone,
             listed |-> FALSE, parts |-> << >>] : t \in Texts \cup LongTexts }
    \cup { [fenced |-> TRUE, tag |-> f[1], body |-> f[2], value |-> PyNone,
             listed |-> FALSE, parts |-> << >>] : f \in Fences }
    \cup { [fenced |-> FALSE, tag |-> <<>>, body |-> JoinParts(L, 1),
             value |-> PyNone, listed |-> TRUE, parts |-> L] : L \in ListContents }

\* the content of the response of a sample: its list of parts, or its body,
\* after the fence and the tag and before the closing fence when it is fenced
Response(smp) ==
    IF smp.listed THEN PyList(smp.parts)
    ELSE IF smp.fenced
    THEN PyStr(S_fence \o smp.tag \o <<"\n">> \o smp.body \o <<"\n">> \o S_fence)
    ELSE PyStr(smp.body)

InitExtract ==
    /\ sample \in Samples
    /\ applied = NoExtract
    /\ pc = "extract"
    /\ spec_file = NoFile
    /\ save_intermediates = TRUE
    /\ chains = {}
    /\ output_dir = ""
    /\ files = << >>
    /\ log = << >>
    /\ spec = PyNone
    /\ spec_json = << >>
    /\ plan_data = PyNone
    /\ plan_json = << >>
    /\ html = PyNone
    /\ passed = PyNone
    /\ result = NoResult
    /\ max_iterations = 0
    /\ state = NoState
    /\ clock = 0
    /\ run_dirs = << >>

\* src/src/sim_generator.py lines 27-89
SafeJsonParse ==
    /\ pc = "extract"
    /\ applied = NoExtract
    /\ applied' = [fn |-> "safe_json_parse", out |-> safe_json_parse(Response(sample))]
    /\ UNCHANGED sample
    /\ UNCHANGED <<pc, spec_file, output_dir, files, log, spec, spec_json, result>>
    /\ UNCHANGED <<sequentialVars, graphVars, dirVars>>

\* src/src/sim_generator.py lines 92-144, for a content that is a str
ExtractHtmlFromResponse ==
    /\ pc = "extract"
    /\ applied = NoExtract
    /\ ~sample.listed
    /\ applied' = [fn |-> "extract_html_from_response",
                   out |-> Return(extract_html_from_response(Response(sample)))]
    /\ UNCHANGED sample
    /\ UNCHANGED <<pc, spec_file, output_dir, files, log, spec, spec_json, result>>
    /\ UNCHANGED <<sequentialVars, graphVars, dirVars>>

\* src/src_lang_graph/sim_generator.py lines 64-88, for a content that is a str
GraphSafeJsonParse ==
    /\ pc = "extract"
    /\ applied = NoExtract
    /\ ~sample.listed
    /\ applied' = [fn |-> "graph_safe_json_parse",
                   out |-> graph_safe_json_parse(Response(sample))]
    /\ UNCHANGED sample
    /\ UNCHANGED <<pc, spec_file, output_dir, files, log, spec, spec_json, result>>
    /\ UNCHANGED <<sequentialVars, graphVars, dirVars>>

NextExtract ==
    \/ SafeJsonParse
    \/ ExtractHtmlFromResponse
    \/ GraphSafeJsonParse

SpecExtract == InitExtract /\ [][NextExtract]_vars

(***************************************************************************)
(* Properties of generate_simulation_with_checks.                          *)
(***************************************************************************)

\* the invocations of a chain so far, in order
Calls(chain) == SelectSeq(log, LAMBDA e : e.ev = "invoke" /\ e.who = chain)

\* the response is one safe_json_parse does not parse
Unparsed(reply) == ~reply.raised /\ ~safe_json_parse(reply.content).ok

\* the invocation raised, or its response is one safe_json_parse does not parse
Failed(reply) == reply.raised \/ ~safe_json_parse(reply.content).ok

\* the planner has run and the run has gone on to the creator
ReachedCreator == pc = "creator" \/ Calls("creation_chain") # <<>>

\* the plan of the run is this blueprint, and every invocation that has a
\* plan among its kwargs has this one
PlanHandedOn(blueprint) ==
    LET HandedOn(plan) ==
            \A i \in 1..Len(log) :
                (log[i].ev = "invoke" /\ HasKey(log[i].arg, K_plan))
                    => Lookup(log[i].arg, K_plan) = plan
    IN  plan_data = blueprint /\ HandedOn(PyStr(json_dumps(blueprint)))

\* C1: the planner is invoked at most twice, each time with the same kwargs;
\* when its first response does not parse it is invoked exactly once more and
\* the run goes on to the creator; when the second invocation fails as well,
\* the plan of the run and of every later invocation is
\* generate_default_blueprint_from_spec(spec).
C1_PlannerRetriesOnceThenFallsBack ==
    LET Retried(calls) ==
            /\ Len(calls) <= 2
            /\ \A i \in 1..Len(calls) : calls[i].arg = PlannerArgs(spec_json)
            /\ (calls # <<>> /\ Unparsed(calls[1].reply)) =>
                    /\ Len(calls) = 2
                    /\ ReachedCreator
                    /\ Failed(calls[2].reply) =>
                        PlanHandedOn(generate_default_blueprint_from_spec(spec))
    IN  Retried(Calls("planner_chain"))

\* C1, its case: two failed planner invocations, the first a response that
\* does not parse, and the creator invoked with the default blueprint
C1_Witness ==
    LET FellBack(calls) ==
            /\ Len(calls) = 2
            /\ Unparsed(calls[1].reply)
            /\ Failed(calls[2].reply)
            /\ Calls("creation_chain") # <<>>
            /\ plan_data = generate_default_blueprint_from_spec(spec)
    IN  FellBack(Calls("planner_chain"))

\* C2: when the first planner invocation raises, the planner is invoked
\* again, the plan is the default blueprint of the spec when that raises as
\* well, and the run goes on to the creator and to its final output.
C2_PlannerRaiseFallsBack ==
    LET FellBack(calls) ==
            (calls # <<>> /\ calls[1].reply.raised) =>
                /\ Len(calls) = 2
                /\ ReachedCreator
                /\ calls[2].reply.raised =>
                    plan_data = generate_default_blueprint_from_spec(spec)
    IN  FellBack(Calls("planner_chain"))

\* C3: a run that has loaded its spec and invoked the planner returns only
\* after the review stage has run and the final HTML is written.
C3_OnlySpecLoadingAborts ==
    (pc = "returned" /\ Calls("planner_chain") # <<>>) =>
        /\ Calls("review_chain") # <<>>
        /\ "5_final_output.html" \in DOMAIN files

\* C4: after a bugfix stage whose invocation raised or whose response does
\* not parse, the html of the run is the html the bugfix chain was given
\* (the creator's), and it is the html the review chain is given.
C4_FailedBugfixKeepsHtml ==
    LET Kept(calls, reviews) ==
            (calls # <<>> /\ Failed(calls[1].reply)) =>
                /\ HtmlArgs(html) = calls[1].arg
                /\ \A i \in 1..Len(reviews) : reviews[i].arg = calls[1].arg
    IN  Kept(Calls("bugfix_chain"), Calls("review_chain"))

\* C5: no run ends in an uncaught exception, and a run that returns has its
\* output directory and returns True or False as its verdict.
C5_ReturnsBooleanVerdict ==
    /\ pc # "raised"
    /\ pc = "returned" =>
            /\ result.output_dir # ""
            /\ result.passed \in {PyTrue, PyFalse}

\* the error files of the stages
ErrorFiles ==
    {"1_planner_parse_error.txt", "1_planner_final_error.txt",
     "2_creator_error.txt", "3_bugfix_error.txt", "4_interaction_error.txt",
     "6_review_error.txt"}

\* every stage ran once, with a response that parses, and wrote no error
EveryStageSucceeded ==
    /\ \A i \in 1..Len(log) :
            /\ log[i].ev = "invoke" => ~Failed(log[i].reply)
            /\ log[i].ev = "write" => log[i].who \notin ErrorFiles
    /\ Len(Calls("planner_chain")) = 1
    /\ Len(Calls("review_chain")) = 1

\* the scores of a review payload are integers, all at least 3, with a mean
\* of at least 4
ScoresApprove(review_data) ==
    LET Approve(scores) ==
            LET Sum[i \in 0..Len(scores.kids)] ==
                    IF i = 0 THEN 0 ELSE Sum[i - 1] + scores.kids[i].v.n
            IN  /\ scores.t = "dict"
                /\ scores.kids # <<>>
                /\ \A i \in 1..Len(scores.kids) :
                        scores.kids[i].v.t = "int" /\ scores.kids[i].v.n >= 3
                /\ Sum[Len(scores.kids)] >= 4 * Len(scores.kids)
    IN  Approve(Get(review_data, K_scores, PyDict(<<>>)))

\* C6: a run with artifacts in which every stage succeeded and the review
\* payload's scores are all at least 3 with a mean of at least 4 returns True.
C6_VerdictFromScores ==
    (/\ pc = "returned"
     /\ save_intermediates
     /\ EveryStageSucceeded
     /\ ScoresApprove(safe_json_parse(Calls("review_chain")[1].reply.content).v))
        => result.passed = PyTrue

\* the file of the review, the one file the run writes a verdict to, is in
\* the output directory
VerdictWritten == "6_review_results.json" \in DOMAIN files

\* C7: a run with artifacts that reached the review stage and returned has
\* written the final HTML and the verdict it returns.
C7_FinalHtmlAndVerdictWritten ==
    (pc = "returned" /\ save_intermediates /\ Calls("review_chain") # <<>>) =>
        /\ "5_final_output.html" \in DOMAIN files
        /\ VerdictWritten

\* the stages, by their chain, in the order they run
Stages ==
    <<"planner_chain", "creation_chain", "bugfix_chain",
      "student_interaction_chain", "review_chain">>

\* the output files and the error files of a stage
Artifacts(chain) ==
    CASE chain = "planner_chain" ->
            {"1_planner_blueprint.json", "1_planner_blueprint_fallback.json",
             "1_planner_parse_error.txt", "1_planner_final_error.txt"}
      [] chain = "creation_chain" -> {"2_creator_output.html", "2_creator_error.txt"}
      [] chain = "bugfix_chain" -> {"3_bugfix_output.html", "3_bugfix_error.txt"}
      [] chain = "student_interaction_chain" ->
            {"4_student_interaction.json", "4_interaction_error.txt"}
      [] chain = "review_chain" -> {"6_review_results.json", "6_review_error.txt"}

\* the raw responses a stage saves
RawResponses(chain) ==
    CASE chain = "planner_chain" ->
            {"1_planner_raw_response.txt", "1_planner_retry_raw_response.txt"}
      [] chain = "creation_chain" -> {"2_creator_raw_response.txt"}
      [] chain = "bugfix_chain" -> {"3_bugfix_raw_response.txt"}
      [] OTHER -> {}

\* C8: with artifacts saved, a stage that was started has left a file:
\* an output file, an error file or a raw response.
C8_StartedStageLeavesArtifact ==
    \A k \in 1..Len(Stages) :
        (save_intermediates /\ Calls(Stages[k]) # <<>>) =>
            (Artifacts(Stages[k]) \cup RawResponses(Stages[k])) \cap DOMAIN files # {}

\* an output file or an error file of this stage is written before position i
\* of the log
ArtifactBefore(chain, i) ==
    \E j \in 1..(i - 1) : log[j].ev = "write" /\ log[j].who \in Artifacts(chain)

\* every invocation of the chain of a stage after the first comes after a
\* write of an output file or an error file of the stage before it
StagesInOrder ==
    \A i \in 1..Len(log) : \A k \in 2..Len(Stages) :
        (log[i].ev = "invoke" /\ log[i].who = Stages[k])
            => ArtifactBefore(Stages[k - 1], i)

C10_NeverRegenerates ==
    /\ pc = "should_continue" => should_continue(state) = "end"
    /\ Len(Calls("creator_chain")) <= 1
    /\ Len(Calls("reviewer_chain")) <= 1
    /\ state.iteration <= 1

\* C10, its case: a run that has returned with a review that does not
\* approve and with fewer iterations than max_iterations
C10_Witness ==
    /\ pc = "returned"
    /\ Calls("reviewer_chain") # <<>>
    /\ ~Calls("reviewer_chain")[1].reply.raised
    /\ ~Truthy(state.approved)
    /\ state.iteration = 1
    /\ state.iteration < max_iterations

(***************************************************************************)
(* The order of the stages and what each hands on.                         *)
(***************************************************************************)

\* the invocations so far, in order
Invokes == SelectSeq(log, LAMBDA e : e.ev = "invoke")

\* the place of a chain among the stages
StageIndex(chain) == CHOOSE k \in 1..Len(Stages) : Stages[k] = chain

\* the invocations so far are in the order of the stages, the planner is
\* invoked at most twice and every other chain at most once
InvocationsInOrder ==
    LET Ordered(invokes) ==
            /\ \A i \in 1..Len(invokes) : \A j \in (i + 1)..Len(invokes) :
                    StageIndex(invokes[i].who) <= StageIndex(invokes[j].who)
            /\ \A k \in 1..Len(Stages) :
                    Len(Calls(Stages[k])) <= (IF k = 1 THEN 2 ELSE 1)
    IN  Ordered(Invokes)

\* the place of a step of the run in the order of the steps
PcRank ==
    [load |-> 1, validate |-> 2, planner |-> 3, creator |-> 4, bugfix |-> 5,
     interaction |-> 6, review |-> 7, final |-> 8, returned |-> 9, raised |-> 9]

\* a step of the run moves on to a later step, so that every stage runs at
\* most once, and it assigns only the locals of its stage: the plan in the
\* planner stage, the html in the creator and the bugfix stage, the verdict
\* in the review stage
UpdatedInTurn ==
    /\ PcRank[pc'] > PcRank[pc]
    /\ <<plan_data, plan_json>>' # <<plan_data, plan_json>> => pc = "planner"
    /\ html' # html => pc \in {"creator", "bugfix"}
    /\ passed' # passed => pc = "review"
    /\ <<spec, spec_json>>' # <<spec, spec_json>> => pc = "load"

\* C11: in every run the invocations happen in the order planner, creator,
\* bugfix, student interaction, review, the planner at most twice and every
\* other chain at most once, and every step of the run is a step of a later
\* stage than the one before that assigns only the locals of its own stage.
C11_StagesInFixedOrder == []InvocationsInOrder /\ [][UpdatedInTurn]_vars

\* C11, its case: a run that has returned after invoking the planner twice
\* and every other chain once
C11_Witness ==
    /\ pc = "returned"
    /\ Len(Calls("planner_chain")) = 2
    /\ \A k \in 2..Len(Stages) : Len(Calls(Stages[k])) = 1

\* the value of a kwarg of the one invocation of a chain
Sent(chain, key) == Lookup(Calls(chain)[1].arg, key)

\* the text is handed to the review stage, the one stage after the student
\* interaction, or is in what the run returns: it is within the value of a
\* kwarg of the review invocation or within the html returned
ReachesReview(text) ==
    LET Reaches(kwargs) ==
            \/ \E i \in 1..Len(kwargs.kids) :
                    kwargs.kids[i].v.t = "str" /\ Contains(kwargs.kids[i].v.s, text)
            \/ result.html.t = "str" /\ Contains(result.html.s, text)
    IN  Reaches(Calls("review_chain")[1].arg)

\* the run has returned after its review stage and the responses of the
\* creator, the bugfix and the student interaction chain were extracted
EveryOutputExtracted ==
    LET Extracted(creator, bugfix, interaction) ==
            /\ creator # <<>> /\ ~creator[1].reply.raised
            /\ bugfix # <<>> /\ ~Failed(bugfix[1].reply)
            /\ interaction # <<>> /\ ~Failed(interaction[1].reply)
    IN  /\ pc = "returned"
        /\ Calls("review_chain") # <<>>
        /\ Extracted(Calls("creation_chain"), Calls("bugfix_chain"),
                     Calls("student_interaction_chain"))

\* C12: the output of each of planner, creator, bugfix and student
\* interaction is an input of a later stage or part of the result: the plan
\* is the plan the creator is given, the creator's html is the html the
\* bugfix is given, the bugfix's html is the html the review is given, and
\* the student interaction's payload is within what the review is given or
\* within the html returned.
C12_EveryOutputHandedOn ==
    EveryOutputExtracted =>
        /\ Sent("creation_chain", K_plan) = PyStr(plan_json)
        /\ Sent("bugfix_chain", K_html)
                = extract_html_from_response(Calls("creation_chain")[1].reply.content)
        /\ Sent("review_chain", K_html) = html
        /\ ReachesReview(json_dumps(safe_json_parse(
                Calls("student_interaction_chain")[1].reply.content).v))

(***************************************************************************)
(* Properties of the output directories.                                   *)
(***************************************************************************)

\* C13: no two runs have the same output directory, also when they start in
\* the same second with the same output root.
C13_RunsHaveOwnDirectories ==
    \A r1 \in DOMAIN run_dirs : \A r2 \in DOMAIN run_dirs :
        r1 # r2 => run_dirs[r1] # run_dirs[r2]

(***************************************************************************)
(* Properties of the extraction helpers.                                   *)
(***************************************************************************)

\* C14: safe_json_parse (of either pipeline) applied to the serialized text
\* of a JSON object, plain or inside a json fence, returns that object.
C14_RoundTrip ==
    (sample.value # PyNone
        /\ applied.fn \in {"safe_json_parse", "graph_safe_json_parse"})
        => applied.out = Return(sample.value)

\* the deepest nesting of the braces of text from its character i on, at
\* depth d and with m the deepest so far; -1 when the braces are not one
\* outer pair around the whole text
RECURSIVE BraceNesting(_, _, _, _)
BraceNesting(text, i, d, m) ==
    IF i > Len(text) THEN (IF d = 0 /\ m > 0 THEN m ELSE -1)
    ELSE IF text[i] = "{"
    THEN (IF d = 0 /\ i > 1 THEN -1
          ELSE BraceNesting(text, i + 1, d + 1, IF d + 1 > m THEN d + 1 ELSE m))
    ELSE IF text[i] = "}"
    THEN (IF d = 0 THEN -1 ELSE BraceNesting(text, i + 1, d - 1, m))
    ELSE (IF d = 0 THEN -1 ELSE BraceNesting(text, i + 1, d, m))

\* the response is a serialized object whose braces are an outer pair around
\* pairs that hold no braces
OneLevelObject ==
    /\ sample.value # PyNone
    /\ ~sample.fenced
    /\ BraceNesting(sample.body, 1, 0, 0) \in {1, 2}

RawHtml ==
    /\ ~sample.fenced
    /\ sample.value = PyNone
    /\ \/ startswith(lower(sample.body), S_doctype)
       \/ startswith(lower(sample.body), S_html_open)

\* the text from its start through its last closing </html> tag
ThroughLastClose(text) ==
    LET Through(end_pos) ==
            IF end_pos # -1 THEN Slice(text, 0, end_pos + Len(S_html_close))
            ELSE text
    IN  Through(rfind(lower(text), S_html_close))

\* C16: for a raw HTML document both helpers return the document from its
\* start through its last </html>, without the text that follows it.
C16_RawHtmlThroughLastClose ==
    RawHtml =>
        /\ applied.fn = "safe_json_parse" =>
                applied.out = Return(PyDict(<<Member(K_index_html,
                                    PyStr(ThroughLastClose(sample.body)))>>))
        /\ applied.fn = "extract_html_from_response" =>
                applied.out = Return(PyStr(ThroughLastClose(sample.body)))

\* the response is the serialized text of an object {"index.html": H}
PageObject ==
    /\ sample.value # PyNone
    /\ ~sample.fenced
    /\ Len(sample.value.kids) = 1
    /\ sample.value.kids[1].k = K_index_html

\* C17: safe_json_parse applied to the JSON text of {"index.html": H}
\* returns {"index.html": H}, for every H.
C17_PageObjectReturned ==
    (PageObject /\ applied.fn = "safe_json_parse")
        => applied.out = Return(sample.value)

\* C18: a candidate span that json.loads rejects is returned as a document
\* when its lower-cased text holds <html, <!doctype or <style, and raises
\* the decode error otherwise; the decode error is raised in no other case.
C18_MalformedCandidateWithMarker ==
    LET DecodeFailed == "safe_json_parse: JSON decode failed"
        Settled(candidate) ==
            LET Marked(low) ==
                    \/ Contains(low, S_html_open)
                    \/ Contains(low, S_doctype)
                    \/ Contains(low, S_style_open)
                Rejected == candidate.found /\ ~json_loads(candidate.text).ok
            IN  /\ (Rejected /\ Marked(lower(candidate.text))) =>
                        applied.out = Return(PyDict(<<Member(K_index_html,
                                                PyStr(candidate.text))>>))
                /\ (Rejected /\ ~Marked(lower(candidate.text))) =>
                        /\ ~applied.out.ok
                        /\ applied.out.err.kind = DecodeFailed
                /\ applied.out.err.kind = DecodeFailed =>
                        Rejected /\ ~Marked(lower(candidate.text))
    IN  applied.fn = "safe_json_parse" => Settled(json_str_of(Response(sample)))

\* a rejected candidate whose only marker is <style has come back as a
\* document
C18_Witness ==
    LET Wrapped(candidate) ==
            /\ candidate.found
            /\ ~json_loads(candidate.text).ok
            /\ Contains(lower(candidate.text), S_style_open)
            /\ ~Contains(lower(candidate.text), S_html_open)
            /\ ~Contains(lower(candidate.text), S_doctype)
            /\ applied.out = Return(PyDict(<<Member(K_index_html,
                                        PyStr(candidate.text))>>))
    IN  applied.fn = "safe_json_parse" /\ Wrapped(json_str_of(Response(sample)))

\* the content of a fenced response: what stands between the fences, without
\* the tag line when the tag is json or html in any case
Content(smp) ==
    IF smp.tag = <<>> \/ lower(smp.tag) \in {S_json, S_html}
    THEN smp.body
    ELSE smp.tag \o <<"\n">> \o smp.body

\* C19: a helper given a fenced response gives what it gives for the content
\* of the fence, so that it drops the fences, a tag json or html, and no
\* other character.
C19_FenceRemovedExactly ==
    sample.fenced =>
        /\ applied.fn = "safe_json_parse" =>
                applied.out = safe_json_parse(PyStr(Content(sample)))
        /\ applied.fn = "extract_html_from_response" =>
                applied.out
                    = Return(extract_html_from_response(PyStr(Content(sample))))
        /\ applied.fn = "graph_safe_json_parse" =>
                applied.out = graph_safe_json_parse(PyStr(Content(sample)))

\* the response is searched for a document (lines 121-141) and holds both a
\* doctype and an <html tag
BothMarkers ==
    /\ ~sample.fenced
    /\ sample.value = PyNone
    /\ ~RawHtml
    /\ ~json_loads(sample.body).ok
    /\ Contains(lower(sample.body), S_doctype)
    /\ Contains(lower(sample.body), S_html_open)

\* C20: the document extract_html_from_response returns starts at the
\* smaller of the positions of the doctype and of the <html tag.
C20_DocumentStartsAtFirstMarker ==
    LET From(text, doctype_start, html_start, end_pos) ==
            LET start_pos == IF doctype_start < html_start THEN doctype_start
                             ELSE html_start
            IN  IF end_pos # -1
                THEN Slice(text, start_pos, end_pos + Len(S_html_close))
                ELSE SliceFrom(text, start_pos)
        Found(text, low) ==
            From(text, find(low, S_doctype), find(low, S_html_open),
                 rfind(low, S_html_close))
    IN  (BothMarkers /\ applied.fn = "extract_html_from_response") =>
            applied.out = Return(PyStr(Found(sample.body, lower(sample.body))))

(***************************************************************************)
(* Properties of the errors of the extraction helpers.                     *)
(***************************************************************************)

\* the errors by their kind
EmptyResponseErrors == {"safe_json_parse: LLM returned empty content"}
NoJsonFoundErrors ==
    {"safe_json_parse: Could not find JSON", "Could not find JSON in response"}
JsonDecodeErrors == {"safe_json_parse: JSON decode failed", "JSONDecodeError"}

\* a helper that looks for a JSON object has been applied
StructuredApplied == applied.fn \in {"safe_json_parse", "graph_safe_json_parse"}

\* the response is no fenced text and no serialized object; its normalized
\* text is its stripped body
Unfenced == ~sample.fenced /\ sample.value = PyNone

\* C21: a response whose normalized text is empty fails with the
\* empty-response error and returns no payload.
C21_EmptyResponseFails ==
    (Unfenced /\ strip(sample.body) = <<>> /\ StructuredApplied) =>
        /\ ~applied.out.ok
        /\ applied.out.err.kind \in EmptyResponseErrors

\* text holds an opening brace at a position before a closing brace
BraceBefore(text) ==
    \E i \in 1..Len(text) : \E j \in (i + 1)..Len(text) :
        text[i] = "{" /\ text[j] = "}"

\* text holds a start marker of an HTML document
Marked(text) ==
    Contains(lower(text), S_html_open) \/ Contains(lower(text), S_doctype)

\* the response is a non-empty text that is no HTML document
PlainText == Unfenced /\ strip(sample.body) # <<>> /\ ~Marked(sample.body)

\* C22: a non-empty text that is no HTML document and in which no opening
\* brace stands before a closing brace fails with the no-JSON-found error.
C22_NoCandidateFails ==
    (PlainText /\ ~BraceBefore(sample.body) /\ StructuredApplied) =>
        /\ ~applied.out.ok
        /\ applied.out.err.kind \in NoJsonFoundErrors

\* the response holds no document for extract_html_from_response: it is
\* empty, or has no start marker and is no object with an index.html member
NoDocument ==
    LET NoPage(data) ==
            ~(data.ok /\ data.v.t = "dict" /\ HasKey(data.v, K_index_html))
    IN  /\ ~sample.fenced
        /\ ~sample.listed
        /\ \/ strip(sample.body) = <<>>
           \/ ~Marked(sample.body) /\ NoPage(json_loads(strip(sample.body)))

\* C23: extract_html_from_response reports a failure for a response that
\* holds no document.
C23_NoDocumentFails ==
    (NoDocument /\ applied.fn = "extract_html_from_response") => ~applied.out.ok

\* C26: the snippet of an error of safe_json_parse is at most 300
\* characters long.
C26_SnippetBounded ==
    (applied.fn = "safe_json_parse" /\ ~applied.out.ok)
        => Len(applied.out.err.snippet) <= SnippetLen

\* C29: where an opening brace stands before a closing brace the pattern
\* matches, so that the span from the first opening to the last closing
\* brace is never the candidate, and for a non-empty text that is no HTML
\* document the no-JSON-found error is raised exactly when no opening brace
\* stands before a closing brace.
C29_CandidateIsLeftmostMatch ==
    LET Searched(text) ==
            /\ BraceBefore(text) <=> re_search(text).found
            /\ StructuredApplied =>
                    /\ applied.out.err.kind \in NoJsonFoundErrors
                            <=> ~BraceBefore(text)
                    /\ ~re_search(text).found
                            => applied.out.err.kind \notin JsonDecodeErrors
    IN  PlainText => Searched(strip(sample.body))

\* the response is searched for a document (lines 121-141) and holds a
\* start marker
MarkerInside ==
    /\ ~sample.fenced
    /\ ~sample.listed
    /\ sample.value = PyNone
    /\ ~RawHtml
    /\ ~json_loads(strip(sample.body)).ok
    /\ Marked(sample.body)

\* C30: a document found at a start marker inside the text is not empty and
\* begins with the marker.
C30_DocumentBeginsWithMarker ==
    (MarkerInside /\ applied.fn = "extract_html_from_response") =>
        /\ applied.out.ok
        /\ applied.out.v.s # <<>>
        /\ \/ startswith(lower(applied.out.v.s), S_doctype)
           \/ startswith(lower(applied.out.v.s), S_html_open)

(***************************************************************************)
(* Properties of the fields the stages read.                               *)
(***************************************************************************)

\* the payload safe_json_parse gives for the response of a chain; none for
\* a chain that was not invoked or that raised
Payload(chain) ==
    LET Of(calls) ==
            IF calls = << >> \/ calls[1].reply.raised
            THEN Raise("no response", << >>)
            ELSE safe_json_parse(calls[1].reply.content)
    IN  Of(Calls(chain))

\* the payload of a chain is structured and has no member key
Absent(chain, key) == Payload(chain).ok /\ ~HasKey(Payload(chain).v, key)

\* what the bugfix node goes on with for the html it took from its payload
Carried(fixed) ==
    LET Enforced(enforced) == IF enforced.ok THEN enforced.v ELSE fixed
    IN  Enforced(enforce_minimum_requirements(fixed))

\* an absent field is read as its default: the html of before the bugfix,
\* no explanations, no questions, no scores, the verdict False and no
\* required changes; nothing is reported as an error then
AbsentFieldsDefaulted ==
    /\ (Absent("bugfix_chain", K_index_html) /\ Absent("bugfix_chain", K_explanations)) =>
            /\ html = Carried(Sent("bugfix_chain", K_html))
            /\ "3_bugfix_error.txt" \in DOMAIN files =>
                    ~enforce_minimum_requirements(Sent("bugfix_chain", K_html)).ok
    /\ Absent("student_interaction_chain", K_questions) =>
            /\ "4_interaction_error.txt" \notin DOMAIN files
            /\ save_intermediates => "4_student_interaction.json" \in DOMAIN files
    /\ (Absent("review_chain", K_pass) /\ pc \in {"final", "returned", "raised"}) =>
            passed = PyFalse
    /\ (Absent("review_chain", K_scores) /\ Absent("review_chain", K_required_changes)) =>
            "6_review_error.txt" \notin DOMAIN files

\* a stage that reads its payload hands the run on to the next stage
StageEnds ==
    /\ pc = "bugfix" => pc' = "interaction"
    /\ pc = "interaction" => pc' = "review"
    /\ pc = "review" => pc' = "final"

main(ended, success) == IF ended = "returned" THEN 0 ELSE 1

\* the exit status of the command once the run is over
exit_status == main(pc, pc = "returned" /\ Truthy(result.passed))

\* C25: the exit status of a run that was not approved differs from the
\* exit status of an approved run.
C25_StatusReflectsVerdict ==
    (pc = "returned" /\ ~Truthy(result.passed)) =>
        exit_status # main("returned", TRUE)

(***************************************************************************)
(* Properties of the final output.                                         *)
(***************************************************************************)

\* the two issues enforce_minimum_requirements is there to prevent
EnforcedIssues ==
    {"Missing DOCTYPE declaration.", "Missing viewport meta tag for mobile."}

\* the run has written its final output
FinalOutputWritten == pc = "returned" /\ "5_final_output.html" \in DOMAIN files

\* C27: check_minimum_requirements applied to the final output reports
\* neither a missing DOCTYPE nor a missing viewport tag.
C27_FinalOutputMeetsMinimum ==
    FinalOutputWritten =>
        check_minimum_requirements(result.html).issues \cap EnforcedIssues = {}

\* the review payload the run persisted in 6_review_results.json
PersistedReview == Payload("review_chain")

\* the run has returned after its review stage persisted its results file
ReviewPersisted ==
    /\ pc = "returned"
    /\ "6_review_results.json" \in DOMAIN files
    /\ PersistedReview.ok

\* C28: the verdict a run returns is the value of the pass field of the
\* results file its review stage persisted, False when the file has no
\* pass field.
C28_VerdictIsPersistedPass ==
    ReviewPersisted =>
        result.passed = Get(PersistedReview.v, K_pass, PyFalse)

=============================================================================
